---- MODULE Spec2Model ----
(***************************************************************************)
(* Verification model of the play-by-play pipeline of usmbsbpbp:           *)
(*   - extractLivePlayEvents / deriveLivePlayStates / tweet formatting     *)
(*     (src/src/pipelines/live-play-feed.ts)                               *)
(*   - the posting feed loop (src/unnamed/part_009)                        *)
(*   - the scorekeeping unifier, the player registry and the scoring       *)
(*     decision resolver (src/src/utils/text.ts)                           *)
(*                                                                         *)
(* Strings are sequences of one-character strings.  A null or empty string *)
(* cell is the empty sequence (toOptionalString maps both to null), a null *)
(* number is NullNum, a null half is "none".                               *)
(***************************************************************************)
EXTENDS Integers, Sequences, FiniteSets, TLC

VARIABLES
    \* ---- extractLivePlayEvents (live-play-feed.ts 49-114) ----
    liveStats,              \* the payload handed to extractLivePlayEvents
    epc,                    \* position of the running call: "idle" | "loop"
    sectionIndex,           \* index of the next section of the outer loop
    events,                 \* const events: LivePlayEvent[]
    occurrenceBySignature,  \* const occurrenceBySignature: Map<string, number>
    order,                  \* let order
    returned,               \* key sequences of the calls that have returned
    \* ---- the posting feed (src/unnamed/part_009) ----
    options,                \* CliOptions of the process
    stateFile,              \* the JSON state file: <<>> when missing, else <<FeedState>>
    state,                  \* the FeedState object of the running process
    fpc,                    \* position of the process in main/runCycle
    plays,                  \* runCycle: keys of the plays extracted this cycle
    summary,                \* runCycle: [official, likely] of this cycle's fetch
    postedSet,              \* runCycle: const postedSet (in insertion order)
    toPost,                 \* runCycle: the part of toPost not yet sent
    shouldExit,             \* main: let shouldExit
    tweets,                 \* the calls the posting client has received
    upstream,               \* number of plays the stats service has published
    clock,                  \* wall clock, in polling intervals
    starts,                 \* number of process starts so far
    \* ---- resolveScoringDecisionContext (text.ts 1410-1441) ----
    scoringDecisionArg,     \* argument scoringDecision (the scorecard shorthand)
    playTextArg,            \* argument playText
    resolved,               \* the returned context
    spc,                    \* "call" before the call, "done" after it
    \* ---- createPlayerRegistry (text.ts 1097-1142) ----
    playersById,            \* const playersById: Map<string, BaseballPlayer>
    idBySideAndName,        \* const idBySideAndName: Map<string, string>
    registerCalls,          \* the register calls made so far, each with the id it returned
    \* ---- buildUnifiedPlays (text.ts 868-1031) ----
    finalGame,              \* argument finalGame: its playByPlayByInning
    scoringTimeline,        \* argument scoringTimeline
    unifiedPlays,           \* the returned plays
    usedScoring,            \* const usedScoring: Set<number>
    warnings,               \* argument warnings: the entry index of each warning pushed
    upc,                    \* "call" before the call, "done" after it
    \* ---- deriveLivePlayStates (live-play-feed.ts 116-179) ----
    derivePlays,            \* argument plays
    deriveSummary,          \* argument summary: its visitorScore and homeScore
    playStates,             \* the returned states, by position of the play
    dpc,                    \* "call" before the call, "done" after it
    \* ---- buildPlayTweetText / buildFinalTweetText (live-play-feed.ts 181-244) ----
    tweetInput,             \* the argument of the call
    tweetText,              \* the returned text
    tpc,                    \* "call" before the call, "done" after it
    \* ---- normalizePlayerDisplayName (text.ts 1218-1236) ----
    displayNameArg,         \* argument value of the first call
    displayOnce,            \* the result of the first call
    displayTwice,           \* the result of the call on that result
    npc,                    \* "call" before the first call, "once" after it, "twice" after the second
    \* ---- the supervisor daemon (src/unnamed/part_010) ----
    daemonOptions,          \* CliOptions of the daemon: [mode, once, manualGameIds]
    activeFeeds,            \* const activeFeeds: Map<number, ChildProcess>, game id -> child
    children,               \* the child processes spawned so far: [gameId, status, signalled]
    stopping,               \* let stopping
    mpc,                    \* position of main: "loop" | "fetching" | "sleeping" | "ended"
    cycles,                 \* number of discovery cycles begun
    failures,               \* the "Discovery cycle failed" lines logged: the cycle of each
    \* ---- parsePlayDescription (text.ts 1256-1315) ----
    descriptionText,        \* argument text
    description,            \* the returned [outcome, tags]
    xpc,                    \* "call" before the call, "done" after it
    \* ---- runWithConcurrency (src/src/utils/async.ts) ----
    poolItems,              \* argument items
    poolConcurrency,        \* argument concurrency
    poolResults,            \* const results: the slots of new Array(items.length), NoResult while empty
    poolIndex,              \* let index
    consumers,              \* the consume() calls: [status, current], status "awaiting" | "returned" | "rejected"
    workerCalls,            \* the worker calls made so far: the index of the item of each
    poolOutcome,            \* the promise of the call: "call" | "pending" | "thrown" | "rejected" | "resolved"
    poolReturned,           \* the array the promise resolved with
    \* ---- TtlCache (src/unnamed/part_012) ----
    cacheStore,             \* private readonly store: key -> [expiresAt, value]
    cacheNow,               \* Date.now()
    cacheSets,              \* the last set call of each key: key -> [value, at, ttlMs]
    cacheGot,               \* the last get call: <<[key, at, value, removed]>>
    cpc                     \* "on" while the cache is in use

extractVars == <<liveStats, epc, sectionIndex, events, occurrenceBySignature, order, returned>>
feedVars == <<options, stateFile, state, fpc, plays, summary, postedSet, toPost, shouldExit, tweets, upstream, clock, starts>>
scoringVars == <<scoringDecisionArg, playTextArg, resolved, spc>>
registryVars == <<playersById, idBySideAndName, registerCalls>>
unifyVars == <<finalGame, scoringTimeline, unifiedPlays, usedScoring, warnings, upc>>
deriveVars == <<derivePlays, deriveSummary, playStates, dpc>>
tweetVars == <<tweetInput, tweetText, tpc>>
displayVars == <<displayNameArg, displayOnce, displayTwice, npc>>
daemonVars == <<daemonOptions, activeFeeds, children, stopping, mpc, cycles, failures>>
describeVars == <<descriptionText, description, xpc>>
poolVars == <<poolItems, poolConcurrency, poolResults, poolIndex, consumers, workerCalls, poolOutcome, poolReturned>>
cacheVars == <<cacheStore, cacheNow, cacheSets, cacheGot, cpc>>

vars == <<extractVars, feedVars, scoringVars, registryVars, unifyVars, deriveVars, tweetVars, displayVars, daemonVars, describeVars, poolVars, cacheVars>>

\* what the steps of one component leave alone
extractFrame == <<feedVars, scoringVars, registryVars, unifyVars, deriveVars, tweetVars, displayVars, daemonVars, describeVars, poolVars, cacheVars>>
feedFrame == <<extractVars, scoringVars, registryVars, unifyVars, deriveVars, tweetVars, displayVars, daemonVars, describeVars, poolVars, cacheVars>>
scoringFrame == <<extractVars, feedVars, registryVars, unifyVars, deriveVars, tweetVars, displayVars, daemonVars, describeVars, poolVars, cacheVars>>
registryFrame == <<extractVars, feedVars, scoringVars, unifyVars, deriveVars, tweetVars, displayVars, daemonVars, describeVars, poolVars, cacheVars>>
unifyFrame == <<extractVars, feedVars, scoringVars, deriveVars, tweetVars, displayVars, daemonVars, describeVars, poolVars, cacheVars>>
deriveFrame == <<extractVars, feedVars, scoringVars, registryVars, unifyVars, tweetVars, displayVars, daemonVars, describeVars, poolVars, cacheVars>>
tweetFrame == <<extractVars, feedVars, scoringVars, registryVars, unifyVars, deriveVars, displayVars, daemonVars, describeVars, poolVars, cacheVars>>
describeFrame == <<extractVars, feedVars, scoringVars, registryVars, unifyVars, deriveVars, tweetVars, displayVars, daemonVars, poolVars, cacheVars>>
displayFrame == <<extractVars, feedVars, scoringVars, registryVars, unifyVars, deriveVars, tweetVars, daemonVars, describeVars, poolVars, cacheVars>>
daemonFrame == <<extractVars, feedVars, scoringVars, registryVars, unifyVars, deriveVars, tweetVars, displayVars, describeVars, poolVars, cacheVars>>
poolFrame == <<extractVars, feedVars, scoringVars, registryVars, unifyVars, deriveVars, tweetVars, displayVars, daemonVars, describeVars, cacheVars>>
cacheFrame == <<extractVars, feedVars, scoringVars, registryVars, unifyVars, deriveVars, tweetVars, displayVars, daemonVars, describeVars, poolVars>>

----------------------------------------------------------------------------
(* Bounds of the model *)
MaxRows == 3        \* rows of a play-by-play payload
MaxRuns == 2        \* calls of extractLivePlayEvents on one payload
MaxPlays == 2       \* plays the stats service publishes during the game
MaxClock == 2       \* polling intervals that pass
MaxStarts == 2      \* starts of the posting process
MaxRegisterCalls == 3   \* calls of register on one registry
MaxEvents == 3      \* events of the play-by-play inning block
MaxEntries == 2     \* entries of the scoring summary
MaxDerivePlays == 3  \* plays of the list given to deriveLivePlayStates
LongTagUnits == 100  \* three-character units of the long tag
MaxClauses == 2     \* clauses of the text given to parsePlayDescription
MaxNameParts == 3   \* parts of a raw player name
MaxCycles == 3      \* discovery cycles of the supervisor daemon
MaxSpawns == 3      \* child feed processes the daemon spawns
MaxItems == 3       \* items given to runWithConcurrency
MaxConcurrency == 3 \* the concurrency given to runWithConcurrency
MaxTime == 3        \* milliseconds that pass on the cache's clock
MaxTtl == 2         \* the ttl of a cache entry, in milliseconds

----------------------------------------------------------------------------
(* Null values *)
NullNum == 0 - 1000
NoHalf == "none"
EmptyMap == [s \in {} |-> 0]

----------------------------------------------------------------------------
(* The idle value of each component's variables: a specification of one    *)
(* component starts the others idle and never moves them.                  *)
ExtractOff ==
    /\ liveStats = [sections |-> <<>>]
    /\ epc = "off"
    /\ sectionIndex = 0
    /\ events = <<>>
    /\ occurrenceBySignature = EmptyMap
    /\ order = 0
    /\ returned = <<>>

FeedOff ==
    /\ options = [bootstrapMode |-> "latest"]
    /\ stateFile = <<>>
    /\ state = <<>>
    /\ fpc = "off"
    /\ plays = <<>>
    /\ summary = <<>>
    /\ postedSet = <<>>
    /\ toPost = <<>>
    /\ shouldExit = FALSE
    /\ tweets = <<>>
    /\ upstream = 0
    /\ clock = 0
    /\ starts = 0

ScoringOff ==
    /\ scoringDecisionArg = <<>>
    /\ playTextArg = <<>>
    /\ resolved = <<>>
    /\ spc = "off"

RegistryOff ==
    /\ playersById = EmptyMap
    /\ idBySideAndName = EmptyMap
    /\ registerCalls = <<>>

UnifyOff ==
    /\ finalGame = <<>>
    /\ scoringTimeline = <<>>
    /\ unifiedPlays = <<>>
    /\ usedScoring = {}
    /\ warnings = <<>>
    /\ upc = "off"

DeriveOff ==
    /\ derivePlays = <<>>
    /\ deriveSummary = <<>>
    /\ playStates = <<>>
    /\ dpc = "off"

TweetOff ==
    /\ tweetInput = <<>>
    /\ tweetText = <<>>
    /\ tpc = "off"

DisplayOff ==
    /\ displayNameArg = <<>>
    /\ displayOnce = <<>>
    /\ displayTwice = <<>>
    /\ npc = "off"

DaemonOff ==
    /\ daemonOptions = [mode |-> "none"]
    /\ activeFeeds = EmptyMap
    /\ children = <<>>
    /\ stopping = FALSE
    /\ mpc = "off"
    /\ cycles = 0
    /\ failures = <<>>

DescribeOff ==
    /\ descriptionText = <<>>
    /\ description = <<>>
    /\ xpc = "off"

PoolOff ==
    /\ poolItems = <<>>
    /\ poolConcurrency = 0
    /\ poolResults = <<>>
    /\ poolIndex = 0
    /\ consumers = <<>>
    /\ workerCalls = <<>>
    /\ poolOutcome = "off"
    /\ poolReturned = <<>>

CacheOff ==
    /\ cacheStore = EmptyMap
    /\ cacheNow = 0
    /\ cacheSets = EmptyMap
    /\ cacheGot = <<>>
    /\ cpc = "off"

ExtractAlone == FeedOff /\ ScoringOff /\ RegistryOff /\ UnifyOff /\ DeriveOff /\ TweetOff /\ DisplayOff /\ DaemonOff /\ DescribeOff /\ PoolOff /\ CacheOff
FeedAlone == ExtractOff /\ ScoringOff /\ RegistryOff /\ UnifyOff /\ DeriveOff /\ TweetOff /\ DisplayOff /\ DaemonOff /\ DescribeOff /\ PoolOff /\ CacheOff
ScoringAlone == ExtractOff /\ FeedOff /\ RegistryOff /\ UnifyOff /\ DeriveOff /\ TweetOff /\ DisplayOff /\ DaemonOff /\ DescribeOff /\ PoolOff /\ CacheOff
RegistryAlone == ExtractOff /\ FeedOff /\ ScoringOff /\ UnifyOff /\ DeriveOff /\ TweetOff /\ DisplayOff /\ DaemonOff /\ DescribeOff /\ PoolOff /\ CacheOff
UnifyAlone == ExtractOff /\ FeedOff /\ ScoringOff /\ DeriveOff /\ TweetOff /\ DisplayOff /\ DaemonOff /\ DescribeOff /\ PoolOff /\ CacheOff
DeriveAlone == ExtractOff /\ FeedOff /\ ScoringOff /\ RegistryOff /\ UnifyOff /\ TweetOff /\ DisplayOff /\ DaemonOff /\ DescribeOff /\ PoolOff /\ CacheOff
TweetAlone == ExtractOff /\ FeedOff /\ ScoringOff /\ RegistryOff /\ UnifyOff /\ DeriveOff /\ DisplayOff /\ DaemonOff /\ DescribeOff /\ PoolOff /\ CacheOff
DescribeAlone == ExtractOff /\ FeedOff /\ ScoringOff /\ RegistryOff /\ UnifyOff /\ DeriveOff /\ TweetOff /\ DisplayOff /\ DaemonOff /\ PoolOff /\ CacheOff
DisplayAlone == ExtractOff /\ FeedOff /\ ScoringOff /\ RegistryOff /\ UnifyOff /\ DeriveOff /\ TweetOff /\ DaemonOff /\ DescribeOff /\ PoolOff /\ CacheOff
DaemonAlone == ExtractOff /\ FeedOff /\ ScoringOff /\ RegistryOff /\ UnifyOff /\ DeriveOff /\ TweetOff /\ DisplayOff /\ DescribeOff /\ PoolOff /\ CacheOff
PoolAlone == ExtractOff /\ FeedOff /\ ScoringOff /\ RegistryOff /\ UnifyOff /\ DeriveOff /\ TweetOff /\ DisplayOff /\ DaemonOff /\ DescribeOff /\ CacheOff
CacheAlone == ExtractOff /\ FeedOff /\ ScoringOff /\ RegistryOff /\ UnifyOff /\ DeriveOff /\ TweetOff /\ DisplayOff /\ DaemonOff /\ DescribeOff /\ PoolOff

----------------------------------------------------------------------------
(* Character-level string helpers (JavaScript String semantics) *)

UpperLetters == <<"A","B","C","D","E","F","G","H","I","J","K","L","M","N","O","P","Q","R","S","T","U","V","W","X","Y","Z">>
LowerLetters == <<"a","b","c","d","e","f","g","h","i","j","k","l","m","n","o","p","q","r","s","t","u","v","w","x","y","z">>
Digits == <<"0","1","2","3","4","5","6","7","8","9">>

UpperSet == {UpperLetters[i] : i \in 1..26}
LowerSet == {LowerLetters[i] : i \in 1..26}
DigitSet == {Digits[i] : i \in 1..10}
WordSet == UpperSet \cup LowerSet \cup DigitSet \cup {"_"}
LowerOf == [c \in UpperSet |-> LowerLetters[CHOOSE i \in 1..26 : UpperLetters[i] = c]]
UpperOf == [c \in LowerSet |-> UpperLetters[CHOOSE i \in 1..26 : LowerLetters[i] = c]]
ValueOf == [c \in DigitSet |-> (CHOOSE i \in 1..10 : Digits[i] = c) - 1]

IsUpper(c) == c \in UpperSet
IsLower(c) == c \in LowerSet
IsLetter(c) == c \in UpperSet \/ c \in LowerSet
IsDigit(c) == c \in DigitSet
\* \s: the white space of the alphabet used here is the blank and the line feed
IsSpace(c) == c = " " \/ c = "\n"
IsWordChar(c) == c \in WordSet

LowerChar(c) == IF c \in UpperSet THEN LowerOf[c] ELSE c
UpperChar(c) == IF c \in LowerSet THEN UpperOf[c] ELSE c
DigitValue(c) == ValueOf[c]

toLowerCase(s) == [i \in 1..Len(s) |-> LowerChar(s[i])]
toUpperCase(s) == [i \in 1..Len(s) |-> UpperChar(s[i])]

\* String(n) for a non-negative integer below 1000
Str(n) ==
    IF n < 10 THEN <<Digits[n + 1]>>
    ELSE IF n < 100 THEN <<Digits[(n \div 10) + 1], Digits[(n % 10) + 1]>>
    ELSE <<Digits[(n \div 100) + 1], Digits[((n \div 10) % 10) + 1], Digits[(n % 10) + 1]>>

\* Number.parseInt of an all-digit string
RECURSIVE ParseDigits(_)
ParseDigits(s) ==
    IF s = <<>> THEN 0 ELSE ParseDigits(SubSeq(s, 1, Len(s) - 1)) * 10 + DigitValue(s[Len(s)])

AllDigits(s) == s # <<>> /\ \A i \in 1..Len(s) : IsDigit(s[i])

\* s.includes(" ") and friends
HasChar(s, c) == \E i \in 1..Len(s) : s[i] = c

\* does p occur in s starting at position i
MatchesAt(s, i, p) == i >= 1 /\ i + Len(p) - 1 <= Len(s) /\ \A j \in 1..Len(p) : s[i + j - 1] = p[j]
StartsWith(s, p) == MatchesAt(s, 1, p)

\* .trim()
RECURSIVE trimStart(_)
trimStart(s) == IF s # <<>> /\ IsSpace(s[1]) THEN trimStart(Tail(s)) ELSE s
RECURSIVE trimEnd(_)
trimEnd(s) == IF s # <<>> /\ IsSpace(s[Len(s)]) THEN trimEnd(SubSeq(s, 1, Len(s) - 1)) ELSE s
trim(s) == trimEnd(trimStart(s))

\* .replace(/\s+/g, " ")
RECURSIVE collapseSpaces(_)
collapseSpaces(s) ==
    IF s = <<>> THEN s
    ELSE IF Len(s) >= 2 /\ IsSpace(s[1]) /\ IsSpace(s[2]) THEN collapseSpaces(Tail(s))
    ELSE <<IF IsSpace(s[1]) THEN " " ELSE s[1]>> \o collapseSpaces(Tail(s))

\* cleanText: entity decoding is the identity on the alphabet used here
cleanText(value) == trim(collapseSpaces(value))

\* toOptionalString on a string cell (null is the empty sequence)
toOptionalString(value) == cleanText(value)

\* \b at position i of s (between s[i-1] and s[i])
WordBoundaryAt(s, i) ==
    (i > 1 /\ i - 1 <= Len(s) /\ IsWordChar(s[i - 1])) # (i >= 1 /\ i <= Len(s) /\ IsWordChar(s[i]))

\* /\bp\b/.test(s) for a literal phrase p
ContainsPhrase(s, p) ==
    \E i \in 1..Len(s) : MatchesAt(s, i, p) /\ WordBoundaryAt(s, i) /\ WordBoundaryAt(s, i + Len(p))

\* number of non-overlapping matches of /\bp\b/g in s
RECURSIVE CountPhraseFrom(_, _, _)
CountPhraseFrom(s, p, i) ==
    IF i > Len(s) THEN 0
    ELSE IF MatchesAt(s, i, p) /\ WordBoundaryAt(s, i) /\ WordBoundaryAt(s, i + Len(p))
         THEN 1 + CountPhraseFrom(s, p, i + Len(p))
         ELSE CountPhraseFrom(s, p, i + 1)
CountPhrase(s, p) == CountPhraseFrom(s, p, 1)

----------------------------------------------------------------------------
(* Play Row Extractor: row parsing (live-play-feed.ts 283-572)             *)
(* A table has the headers "", Play, Scoring Dec., Batter, Pitcher, Outs   *)
(* and a row has one cell per header, so alignCellsToHeaders returns the   *)
(* cells unchanged and readTableCellByHeader reads the field of that name. *)
(* Every cell is a string (the empty sequence when null or blank).        *)

isLikelyActionCode(value) ==
    LET text == cleanText(value) IN
    /\ text # <<>>
    /\ ~HasChar(text, " ")
    /\ Len(text) <= 4
    /\ \A i \in 1..Len(text) : IsUpper(text[i]) \/ IsDigit(text[i])

isLikelyPlayText(value) ==
    LET text == cleanText(value) IN
    /\ text # <<>>
    /\ ~isLikelyActionCode(text)
    /\ \E i \in 1..Len(text) : text[i] \in {" ", ".", "(", ")", ";"}

isLikelyPlayerName(value) ==
    LET text == cleanText(value) IN
    /\ text # <<>>
    /\ ~AllDigits(text)
    /\ ~isLikelyActionCode(text)
    /\ IsLetter(text[1])
    /\ \A i \in 1..Len(text) : IsLetter(text[i]) \/ text[i] \in {"'", ".", " ", "-"}

\* values.join(" ")
RECURSIVE JoinWithSpace(_)
JoinWithSpace(parts) ==
    IF parts = <<>> THEN <<>>
    ELSE IF Len(parts) = 1 THEN parts[1]
    ELSE parts[1] \o <<" ">> \o JoinWithSpace(Tail(parts))

RECURSIVE FilterNonEmpty(_)
FilterNonEmpty(cells) ==
    IF cells = <<>> THEN <<>>
    ELSE IF cells[1] = <<>> THEN FilterNonEmpty(Tail(cells))
    ELSE <<cells[1]>> \o FilterNonEmpty(Tail(cells))

RECURSIVE FilterNotActionCode(_)
FilterNotActionCode(parts) ==
    IF parts = <<>> THEN <<>>
    ELSE IF isLikelyActionCode(parts[1]) THEN FilterNotActionCode(Tail(parts))
    ELSE <<parts[1]>> \o FilterNotActionCode(Tail(parts))

\* row.cells as strings, in header order
RowCells(row) == <<row.first, row.play, row.scoring, row.batter, row.pitcher, row.outs>>

\* .replace(/,/g, "")
RECURSIVE RemoveCommas(_)
RemoveCommas(s) ==
    IF s = <<>> THEN <<>>
    ELSE IF s[1] = "," THEN RemoveCommas(Tail(s))
    ELSE <<s[1]>> \o RemoveCommas(Tail(s))

\* parseInteger (text.ts 15-26): /^-?\d+$/ after cleanText and comma removal
parseInteger(value) ==
    LET clean == RemoveCommas(cleanText(value)) IN
    IF AllDigits(clean) THEN ParseDigits(clean)
    ELSE IF clean # <<>> /\ clean[1] = "-" /\ AllDigits(Tail(clean)) THEN 0 - ParseDigits(Tail(clean))
    ELSE NullNum

\* toOptionalNumber of a string cell
toOptionalNumber(value) == parseInteger(value)

NoFields == [play |-> <<>>, scoringDecision |-> <<>>, batter |-> <<>>, pitcher |-> <<>>, outs |-> NullNum]

\* lines 386-417: the fields read from the values left after the outs and the
\* action code were taken off
FieldsOfValues(values, outs) ==
    LET remainder == Tail(values)
        n == Len(remainder)
        namesFound == n >= 2 /\ isLikelyPlayerName(remainder[n]) /\ isLikelyPlayerName(remainder[n - 1])
        scoring1 == IF namesFound THEN JoinWithSpace(FilterNotActionCode(SubSeq(remainder, 1, n - 2))) ELSE <<>>
    IN  [play |-> values[1],
         scoringDecision |-> IF scoring1 = <<>> /\ n > 0 /\ ~isLikelyPlayerName(remainder[1])
                             THEN remainder[1] ELSE scoring1,
         batter |-> IF namesFound THEN remainder[n - 1] ELSE <<>>,
         pitcher |-> IF namesFound THEN remainder[n] ELSE <<>>,
         outs |-> outs]

\* lines 372-384: nothing left, or drop a leading action code
FieldsAfterOuts(values, outs) ==
    IF values = <<>> THEN [NoFields EXCEPT !.outs = outs]
    ELSE IF Len(values) >= 2 /\ isLikelyActionCode(values[1]) /\ isLikelyPlayText(values[2])
         THEN FieldsOfValues(Tail(values), outs)
         ELSE FieldsOfValues(values, outs)

\* lines 362-370: a trailing single digit 0..3 is the outs value
FieldsOfCells(values) ==
    IF values = <<>> THEN NoFields
    ELSE IF Len(values[Len(values)]) = 1 /\ IsDigit(values[Len(values)][1]) /\ DigitValue(values[Len(values)][1]) <= 3
         THEN FieldsAfterOuts(SubSeq(values, 1, Len(values) - 1), DigitValue(values[Len(values)][1]))
         ELSE FieldsAfterOuts(values, NullNum)

inferPlayRowFields(cells) ==
    FieldsOfCells(FilterNonEmpty([i \in 1..Len(cells) |-> toOptionalString(cells[i])]))

isInvalidParsedPlay(play, firstCell, batter, pitcher, outs) ==
    \/ play = <<>> \/ AllDigits(play)
    \/ AllDigits(batter)
    \/ (firstCell # <<>> /\ play = batter /\ Len(firstCell) > Len(play) + 6)
    \/ (firstCell # <<>> /\ play # firstCell /\ isLikelyPlayText(firstCell) /\ ~isLikelyPlayText(play))
    \/ (~HasChar(play, " ") /\ pitcher = <<>> /\ outs = NullNum /\ firstCell # <<>> /\ isLikelyPlayText(firstCell))

\* first position at which /(top|bottom|bot)\s+of\s+the\s+(\d+)/i matches, 0 if none
HalfWords == <<<<"t","o","p"," ","o","f"," ","t","h","e"," ">>, <<"b","o","t","t","o","m"," ","o","f"," ","t","h","e"," ">>, <<"b","o","t"," ","o","f"," ","t","h","e"," ">>>>
HalfMatchAt(lower, i) ==
    \E k \in 1..3 : MatchesAt(lower, i, HalfWords[k]) /\ i + Len(HalfWords[k]) <= Len(lower)
                    /\ IsDigit(lower[i + Len(HalfWords[k])])

RECURSIVE TakeDigits(_)
TakeDigits(s) == IF s # <<>> /\ IsDigit(s[1]) THEN <<s[1]>> \o TakeDigits(Tail(s)) ELSE <<>>

\* parseHalfAndInning: [half, inning], or the null pair when the text has no marker
parseHalfAndInning(value) ==
    LET s == cleanText(value)
        lower == toLowerCase(s)
        hits == {i \in 1..Len(s) : HalfMatchAt(lower, i)}
    IN  IF hits = {} THEN [half |-> NoHalf, inning |-> NullNum]
        ELSE LET i == CHOOSE x \in hits : \A y \in hits : x <= y
                 k == CHOOSE x \in 1..3 : MatchesAt(lower, i, HalfWords[x])
             IN  [half |-> IF k = 1 THEN "top" ELSE "bottom",
                  inning |-> ParseDigits(TakeDigits(SubSeq(s, i + Len(HalfWords[k]), Len(s))))]

\* parseInningFromTitle: /(\d+)(?:st|nd|rd|th)?\s+inning/i on the section title
InningWord == <<" ","i","n","n","i","n","g">>
Suffixes == {<<>>, <<"s","t">>, <<"n","d">>, <<"r","d">>, <<"t","h">>}
TitleMatchAt(lower, i) ==
    /\ IsDigit(lower[i])
    /\ LET d == TakeDigits(SubSeq(lower, i, Len(lower)))
       IN  \E n \in 1..Len(d) : \E suf \in Suffixes : MatchesAt(lower, i + n, suf \o InningWord)
parseInningFromTitle(title) ==
    LET s == cleanText(title)
        lower == toLowerCase(s)
        hits == {i \in 1..Len(s) : TitleMatchAt(lower, i)}
    IN  IF hits = {} THEN NullNum
        ELSE LET i == CHOOSE x \in hits : \A y \in hits : x <= y
                 d == TakeDigits(SubSeq(s, i, Len(s)))
                 \* the digit run is greedy; backtracking shortens it only when needed
                 ns == {n \in 1..Len(d) : \E suf \in Suffixes : MatchesAt(lower, i + n, suf \o InningWord)}
                 n == CHOOSE x \in ns : \A y \in ns : y <= x
             IN  ParseDigits(SubSeq(d, 1, n))

\* /play-by-play/i.test(section.title)
ContainsCI(s, p) == LET lower == toLowerCase(s) IN \E i \in 1..Len(s) : MatchesAt(lower, i, p)
IsPlayByPlayTitle(title) == ContainsCI(title, <<"p","l","a","y","-","b","y","-","p","l","a","y">>)

SubstitutionPositions == <<<<"p">>, <<"c">>, <<"1","b">>, <<"2","b">>, <<"3","b">>, <<"s","s">>, <<"l","f">>, <<"c","f">>, <<"r","f">>, <<"d","h">>, <<"p","h">>, <<"p","r">>>>
isSubstitutionText(value) ==
    LET text == toLowerCase(cleanText(value)) IN
    /\ text # <<>>
    /\ \/ ContainsPhrase(text, <<"p","i","n","c","h"," ","r","a","n"," ","f","o","r">>)
       \/ ContainsPhrase(text, <<"p","i","n","c","h"," ","r","u","n","n","e","r"," ","f","o","r">>)
       \/ ContainsPhrase(text, <<"p","i","n","c","h"," ","h","i","t"," ","f","o","r">>)
       \/ \E k \in 1..12 : ContainsPhrase(text, <<"t","o"," ">> \o SubstitutionPositions[k] \o <<" ","f","o","r">>)
       \/ ContainsPhrase(text, <<"s","u","b">>)
       \/ ContainsPhrase(text, <<"s","u","b","s","t","i","t","u","t","i","o","n">>)

isHeaderPlaceholderRow(row) ==
    /\ toOptionalString(row.play) = <<"P","l","a","y">>
    /\ toOptionalString(row.scoring) = <<"S","c","o","r","i","n","g"," ","D","e","c",".">>
    /\ toOptionalString(row.batter) = <<"B","a","t","t","e","r">>
    /\ toOptionalString(row.pitcher) = <<"P","i","t","c","h","e","r">>
    /\ toOptionalString(row.outs) = <<"O","u","t","s">>

\* lines 306-336 of parsePlayRow, on the fields it settled on
ClassifiedRow(firstCell, play, scoringDecision, batter, pitcher, outs, halfAndInning) ==
    IF StartsWith(toLowerCase(firstCell), <<"t","o","p"," ","o","f"," ","t","h","e">>) THEN [type |-> "half", half |-> "top"]
    ELSE IF StartsWith(toLowerCase(firstCell), <<"b","o","t","t","o","m"," ","o","f"," ","t","h","e">>) THEN [type |-> "half", half |-> "bottom"]
    ELSE IF ContainsCI(firstCell, <<"i","n","n","i","n","g"," ","s","u","m","m","a","r","y",":">>) THEN [type |-> "null"]
    ELSE IF play = <<>> \/ toLowerCase(play) = <<"p","l","a","y">> THEN [type |-> "null"]
    ELSE IF AllDigits(play) THEN [type |-> "null"]
    ELSE [type |-> "play",
          inning |-> halfAndInning.inning,
          half |-> halfAndInning.half,
          text |-> play,
          isSubstitution |-> isSubstitutionText(play),
          scoringDecision |-> scoringDecision,
          batter |-> batter,
          pitcher |-> pitcher,
          outs |-> outs]

\* lines 298-304 of parsePlayRow: the fallback fields replace the header fields
\* of an invalid row, field by field (fallback.x ?? x)
MergedRow(firstCell, fallback, invalid, play, scoringDecision, batter, pitcher, outs) ==
    ClassifiedRow(firstCell,
        IF invalid /\ fallback.play # <<>> THEN fallback.play ELSE play,
        IF invalid /\ fallback.scoringDecision # <<>> THEN fallback.scoringDecision ELSE scoringDecision,
        IF invalid /\ fallback.batter # <<>> THEN fallback.batter ELSE batter,
        IF invalid /\ fallback.pitcher # <<>> THEN fallback.pitcher ELSE pitcher,
        IF invalid /\ fallback.outs # NullNum THEN fallback.outs ELSE outs,
        parseHalfAndInning(firstCell))

\* lines 288-296 of parsePlayRow: the fields read by header name
HeaderFieldsRow(firstCell, fallback, play, scoringDecision, batter, pitcher, outs) ==
    MergedRow(firstCell, fallback, isInvalidParsedPlay(play, firstCell, batter, pitcher, outs),
              play, scoringDecision, batter, pitcher, outs)

\* parsePlayRow: [type |-> "null"], [type |-> "half", half], or a play
parsePlayRow(row) ==
    IF isHeaderPlaceholderRow(row) THEN [type |-> "null"]
    ELSE HeaderFieldsRow(toOptionalString(row.first), inferPlayRowFields(RowCells(row)),
                         toOptionalString(row.play), toOptionalString(row.scoring),
                         toOptionalString(row.batter), toOptionalString(row.pitcher),
                         toOptionalNumber(row.outs))

----------------------------------------------------------------------------
(* The rows and section titles the payloads are built from *)
Row(first, play, scoring, batter, pitcher, outs) ==
    [first |-> first, play |-> play, scoring |-> scoring, batter |-> batter, pitcher |-> pitcher, outs |-> outs]

RowPool ==
    { Row(<<"T","o","p"," ","o","f"," ","t","h","e"," ","3","r","d">>, <<>>, <<>>, <<>>, <<>>, <<>>),
      Row(<<"B","o","t","t","o","m"," ","o","f"," ","t","h","e"," ","3","r","d">>, <<>>, <<>>, <<>>, <<>>, <<>>),
      Row(<<>>, <<"A","l"," ","g","r","o","u","n","d","e","d"," ","o","u","t">>, <<>>, <<"A","l">>, <<"B","o">>, <<"1">>),
      Row(<<>>, <<"A","l"," ","g","r","o","u","n","d","e","d"," ","o","u","t">>, <<>>, <<"A","l">>, <<"B","o">>, <<"2">>),
      Row(<<>>, <<"A","L"," "," ","g","r","o","u","n","d","e","d"," ","o","u","t">>, <<>>, <<"a","l">>, <<"B","o">>, <<"1">>),
      Row(<<"(","B","o","t"," ","o","f"," ","t","h","e"," ","5","t","h",")">>, <<"C","y"," ","h","o","m","e","r","e","d",".">>, <<"H","R"," ","9">>, <<"C","y">>, <<"B","o">>, <<"0">>) }

TitlePool == { <<"3","r","d"," ","I","n","n","i","n","g"," ","P","l","a","y","-","b","y","-","p","l","a","y">>, <<"P","l","a","y","-","b","y","-","P","l","a","y">>, <<"B","o","x"," ","S","c","o","r","e">> }

\* parsePlayRow and the title parsers, evaluated once per pool element
ParsedRowPool == [row \in RowPool |-> parsePlayRow(row)]
ParsedTitlePool ==
    [title \in TitlePool |->
        [isPlayByPlay |-> IsPlayByPlayTitle(title), inningFromTitle |-> parseInningFromTitle(title)]]

----------------------------------------------------------------------------
(* extractLivePlayEvents (live-play-feed.ts 49-114)                        *)

\* normalizeSignatureValue for a string (null is the empty sequence)
normalizeSignatureValue(value) == toLowerCase(cleanText(value))
\* normalizeSignatureValue for a number or null
normalizeSignatureNumber(value) == IF value = NullNum THEN <<>> ELSE Str(value)
\* normalizeSignatureValue for a half or null
normalizeSignatureHalf(half) ==
    IF half = "top" THEN <<"t","o","p">> ELSE IF half = "bottom" THEN <<"b","o","t","t","o","m">> ELSE <<>>

\* digest: SHA-1 of the input cut to 20 hex digits, taken to be injective
digest(input) == input

Signature(inning, half, parsed) ==
    normalizeSignatureNumber(inning) \o <<"|">> \o
    normalizeSignatureHalf(half) \o <<"|">> \o
    normalizeSignatureValue(parsed.text) \o <<"|">> \o
    normalizeSignatureValue(parsed.batter) \o <<"|">> \o
    normalizeSignatureValue(parsed.pitcher) \o <<"|">> \o
    normalizeSignatureNumber(parsed.outs) \o <<"|">> \o
    normalizeSignatureValue(parsed.scoringDecision)

\* mutant: the occurrence counter is never read back
OccurrenceOf_NeverCounted(occ, signature) == 0

\* occurrenceBySignature.get(signature) ?? 0
OccurrenceOf(occ, signature) == IF signature \in DOMAIN occ THEN occ[signature] ELSE 0

\* lines 92-108: count the signature and push the event
EmitEvent(st, parsed, inning, half, signature, occurrence, title) ==
    [st EXCEPT
        !.occ = [s \in DOMAIN st.occ \cup {signature} |->
                    IF s = signature THEN occurrence ELSE st.occ[s]],
        !.order = st.order + 1,
        !.events = Append(st.events,
            [key |-> digest(signature \o <<"|">> \o Str(occurrence)),
             order |-> st.order + 1,
             inning |-> inning,
             half |-> half,
             isSubstitution |-> parsed.isSubstitution,
             text |-> parsed.text,
             scoringDecision |-> parsed.scoringDecision,
             batter |-> parsed.batter,
             pitcher |-> parsed.pitcher,
             outs |-> parsed.outs,
             sectionTitle |-> title])]

\* lines 81-92: the signature of the play and its occurrence number
EmitSigned(st, parsed, inning, half, signature, title) ==
    EmitEvent(st, parsed, inning, half, signature, OccurrenceOf(st.occ, signature) + 1, title)

\* lines 78-80: inning and half fall back to the section title and the table's current half
EmitPlay(st, parsed, inning, half, title) ==
    EmitSigned(st, parsed, inning, half, Signature(inning, half, parsed), title)

\* lines 65-80: a null row is skipped, a half marker sets currentHalf, a play is emitted
ExtractParsed(st, parsed, title, inningFromTitle) ==
    IF parsed.type = "null" THEN st
    ELSE IF parsed.type = "half" THEN [st EXCEPT !.currentHalf = parsed.half]
    ELSE EmitPlay(st, parsed,
                  IF parsed.inning # NullNum THEN parsed.inning ELSE inningFromTitle,
                  IF parsed.half # NoHalf THEN parsed.half ELSE st.currentHalf,
                  title)

\* one iteration of the row loop (lines 64-109); st = [events, occ, order, currentHalf]
ExtractRow(st, row, title, inningFromTitle) ==
    ExtractParsed(st, ParsedRowPool[row], title, inningFromTitle)

RECURSIVE ExtractRows(_, _, _, _)
ExtractRows(st, rows, title, inningFromTitle) ==
    IF rows = <<>> THEN st
    ELSE ExtractRows(ExtractRow(st, rows[1], title, inningFromTitle), Tail(rows), title, inningFromTitle)

\* the table loop of one section (lines 61-110): currentHalf starts null in every table
RECURSIVE ExtractTables(_, _, _, _)
ExtractTables(st, tables, title, inningFromTitle) ==
    IF tables = <<>> THEN st
    ELSE ExtractTables(
            ExtractRows([st EXCEPT !.currentHalf = NoHalf], tables[1].rows, title, inningFromTitle),
            Tail(tables), title, inningFromTitle)

\* mutant: the occurrence map is module state that survives the call
BeginExtract_KeepsMap ==
    /\ epc = "idle"
    /\ Len(returned) < MaxRuns
    /\ epc' = "loop"
    /\ sectionIndex' = 1
    /\ events' = <<>>
    /\ order' = 0
    /\ UNCHANGED <<liveStats, returned, occurrenceBySignature, extractFrame>>

\* lines 50-53: the call creates its events list, its occurrence map and its order counter
BeginExtract ==
    /\ epc = "idle"
    /\ Len(returned) < MaxRuns
    /\ epc' = "loop"
    /\ sectionIndex' = 1
    /\ events' = <<>>
    /\ occurrenceBySignature' = EmptyMap
    /\ order' = 0
    /\ UNCHANGED <<liveStats, returned, extractFrame>>

\* lines 55-60: only sections whose title says play-by-play are read
SectionResult(st, section, title) ==
    IF title.isPlayByPlay
    THEN ExtractTables(st, section.tables, section.title, title.inningFromTitle)
    ELSE st

StoreResult(st2) ==
    /\ events' = st2.events
    /\ occurrenceBySignature' = st2.occ
    /\ order' = st2.order

Reverse(seq) == [i \in 1..Len(seq) |-> seq[Len(seq) + 1 - i]]

\* mutant: the rows of a table are read from the newest to the oldest
ExtractSection_NewestFirst ==
    /\ epc = "loop"
    /\ sectionIndex <= Len(liveStats.sections)
    /\ StoreResult(SectionResult(
            [events |-> events, occ |-> occurrenceBySignature, order |-> order, currentHalf |-> NoHalf],
            [liveStats.sections[sectionIndex] EXCEPT !.tables[1].rows = Reverse(@)],
            ParsedTitlePool[liveStats.sections[sectionIndex].title]))
    /\ sectionIndex' = sectionIndex + 1
    /\ UNCHANGED <<liveStats, epc, returned, extractFrame>>

\* lines 54-111: one iteration of the section loop
ExtractSection ==
    /\ epc = "loop"
    /\ sectionIndex <= Len(liveStats.sections)
    /\ StoreResult(SectionResult(
            [events |-> events, occ |-> occurrenceBySignature, order |-> order, currentHalf |-> NoHalf],
            liveStats.sections[sectionIndex],
            ParsedTitlePool[liveStats.sections[sectionIndex].title]))
    /\ sectionIndex' = sectionIndex + 1
    /\ UNCHANGED <<liveStats, epc, returned, extractFrame>>

Keys(evs) == [i \in 1..Len(evs) |-> evs[i].key]

\* line 113: return events
ReturnEvents ==
    /\ epc = "loop"
    /\ sectionIndex > Len(liveStats.sections)
    /\ returned' = Append(returned, events)
    /\ epc' = "idle"
    /\ UNCHANGED <<liveStats, sectionIndex, events, occurrenceBySignature, order, extractFrame>>

(* Payloads: two sections of one table each (two sections with the same    *)
(* title behave as one section with two tables), rows drawn from RowPool.  *)
Payload(rows, k, t1, t2) ==
    [sections |-> << [title |-> t1, tables |-> << [rows |-> SubSeq(rows, 1, k)] >>],
                     [title |-> t2, tables |-> << [rows |-> SubSeq(rows, k + 1, Len(rows))] >>] >>]

InitExtract ==
    /\ \E n \in 0..MaxRows : \E rows \in [1..n -> RowPool] : \E k \in 0..n :
         \E t1 \in TitlePool : \E t2 \in TitlePool : liveStats = Payload(rows, k, t1, t2)
    /\ epc = "idle"
    /\ sectionIndex = 0
    /\ events = <<>>
    /\ occurrenceBySignature = EmptyMap
    /\ order = 0
    /\ returned = <<>>
    /\ ExtractAlone

NextExtract == BeginExtract \/ ExtractSection \/ ReturnEvents

SpecExtract == InitExtract /\ [][NextExtract]_vars

\* ---- the payload of a game in progress: between two calls the stats
\* service appends rows after the last play row

\* the rows the growing payloads are built from: a half marker, a play, the
\* same play in another spelling, and a play with its own half and inning
GrowthRowPool == {row \in RowPool : row.outs # <<"2">> /\ (row.first = <<>> \/ row.first[1] # "B")}

TotalRows(payload) ==
    Len(payload.sections[1].tables[1].rows) + Len(payload.sections[2].tables[1].rows)

\* the section gives no play to a call
NoPlays(section) ==
    SectionResult([events |-> <<>>, occ |-> EmptyMap, order |-> 0, currentHalf |-> NoHalf],
                  section, ParsedTitlePool[section.title]).events = <<>>

\* a row arrives at the end of a section that no play row follows
AppendRow ==
    /\ epc = "idle"
    /\ TotalRows(liveStats) < MaxRows
    /\ \E s \in 1..Len(liveStats.sections) : \E row \in GrowthRowPool :
          /\ \A later \in (s + 1)..Len(liveStats.sections) : NoPlays(liveStats.sections[later])
          /\ liveStats' = [liveStats EXCEPT !.sections[s].tables[1].rows = Append(@, row)]
    /\ UNCHANGED <<epc, sectionIndex, events, occurrenceBySignature, order, returned, extractFrame>>

InitGrowingPayload ==
    /\ \E n \in 0..(MaxRows - 1) : \E rows \in [1..n -> GrowthRowPool] : \E k \in 0..n :
         \E t1 \in TitlePool : \E t2 \in TitlePool : liveStats = Payload(rows, k, t1, t2)
    /\ epc = "idle"
    /\ sectionIndex = 0
    /\ events = <<>>
    /\ occurrenceBySignature = EmptyMap
    /\ order = 0
    /\ returned = <<>>
    /\ ExtractAlone

NextGrowingPayload == BeginExtract \/ ExtractSection \/ ReturnEvents \/ AppendRow

SpecGrowingPayload == InitGrowingPayload /\ [][NextGrowingPayload]_vars

----------------------------------------------------------------------------
(* The posting feed (src/unnamed/part_009).  The loop knows a play by its  *)
(* key only: the plays of a fetch are the keys 1..n in play-by-play order. *)
(* The id of a posted tweet is the number of the client call that made it, *)
(* a dry-run id is negative, a null id or timestamp is NullNum.  Time is   *)
(* counted in polling intervals.                                           *)

MAX_STORED_KEYS == 20000

OptionPool ==
    { [bootstrapMode |-> "latest", threadMode |-> "reply", maxPostsPerCycle |-> 2,
       postFinal |-> TRUE, once |-> FALSE, dryRun |-> FALSE, finalGrace |-> 1],
      [bootstrapMode |-> "all", threadMode |-> "reply", maxPostsPerCycle |-> 1,
       postFinal |-> TRUE, once |-> FALSE, dryRun |-> FALSE, finalGrace |-> 1],
      [bootstrapMode |-> "all", threadMode |-> "none", maxPostsPerCycle |-> 2,
       postFinal |-> FALSE, once |-> TRUE, dryRun |-> FALSE, finalGrace |-> 1],
      [bootstrapMode |-> "all", threadMode |-> "reply", maxPostsPerCycle |-> 2,
       postFinal |-> TRUE, once |-> FALSE, dryRun |-> TRUE, finalGrace |-> 1] }

NoSummary == [official |-> FALSE, likely |-> FALSE]

Range(seq) == {seq[i] : i \in 1..Len(seq)}

\* Set.prototype.add on a set that iterates in insertion order
SetAdd(seq, key) == IF key \in Range(seq) THEN seq ELSE Append(seq, key)

RECURSIVE AddAll(_, _)
AddAll(seq, keys) ==
    IF keys = <<>> THEN seq ELSE AddAll(SetAdd(seq, Head(keys)), Tail(keys))

KeepLast(seq, n) == IF Len(seq) <= n THEN seq ELSE SubSeq(seq, Len(seq) - n + 1, Len(seq))

compactPostedKeys(keys) == KeepLast(AddAll(<<>>, keys), MAX_STORED_KEYS)

FreshState ==
    [bootstrapped |-> FALSE, postedPlayKeys |-> <<>>, lastTweetId |-> NullNum,
     rootTweetId |-> NullNum, finalPosted |-> FALSE, finalCandidateAt |-> NullNum]

loadOrCreateState(file) ==
    IF file = <<>> THEN FreshState
    ELSE [bootstrapped |-> file[1].bootstrapped,
          postedPlayKeys |-> compactPostedKeys(file[1].postedPlayKeys),
          lastTweetId |-> file[1].lastTweetId,
          rootTweetId |-> file[1].rootTweetId,
          finalPosted |-> file[1].finalPosted,
          finalCandidateAt |-> file[1].finalCandidateAt]

Fetched(n) == [i \in 1..n |-> i]

RECURSIVE Unposted(_, _)
Unposted(keys, posted) ==
    IF keys = <<>> THEN <<>>
    ELSE IF Head(keys) \in Range(posted) THEN Unposted(Tail(keys), posted)
    ELSE <<Head(keys)>> \o Unposted(Tail(keys), posted)

\* mutant: the slice keeps every unposted play
Slice_KeepsAll(seq, n) == seq

Slice(seq, n) == IF Len(seq) <= n THEN seq ELSE SubSeq(seq, 1, n)

ReplyTo(opts, st) == IF opts.threadMode = "reply" THEN st.lastTweetId ELSE NullNum

\* sendTweet: the id the call returns
sendTweet(opts, st, calls) ==
    IF opts.dryRun THEN 0 - (Len(st.postedPlayKeys) + 1) ELSE Len(calls) + 1

\* sendTweet: the calls the client has received afterwards
ClientCalls(opts, st, calls, kind, key) ==
    IF opts.dryRun THEN calls
    ELSE Append(calls, [kind |-> kind, key |-> key, replyTo |-> ReplyTo(opts, st), id |-> Len(calls) + 1])

AfterTweet(st, id) ==
    [st EXCEPT !.rootTweetId = IF @ = NullNum THEN id ELSE @, !.lastTweetId = id]

FinalCandidateAt(st, sum, now) ==
    IF sum.official THEN NullNum
    ELSE IF sum.likely THEN (IF st.finalCandidateAt = NullNum THEN now ELSE st.finalCandidateAt)
    ELSE NullNum

graceSatisfied(candidateAt, now, opts) ==
    candidateAt # NullNum /\ now - candidateAt >= opts.finalGrace

\* mutant: the official final status is not taken as the end of the game
shouldExitForFinal_LikelyOnly(sum, grace) == sum.likely /\ grace

shouldExitForFinal(sum, grace) == sum.official \/ (sum.likely /\ grace)

pendingPlays(keys, posted) == \E i \in 1..Len(keys) : keys[i] \notin Range(posted)

shouldPostFinalNow(opts, st, pending, sum, grace) ==
    opts.postFinal /\ ~st.finalPosted /\ ~pending /\ shouldExitForFinal(sum, grace)

\* the process is gone: its FeedState object and the locals of runCycle with it
ProcessGone ==
    /\ fpc' = "down"
    /\ state' = FreshState
    /\ plays' = <<>>
    /\ summary' = NoSummary
    /\ postedSet' = <<>>
    /\ toPost' = <<>>
    /\ shouldExit' = FALSE
    /\ UNCHANGED <<options, stateFile, tweets, upstream, clock, starts, feedFrame>>

\* main, lines 45-50: the process starts and loads the state file
StartProcess ==
    /\ fpc \in {"down", "exited"}
    /\ starts < MaxStarts
    /\ starts' = starts + 1
    /\ state' = loadOrCreateState(stateFile)
    /\ fpc' = "cycle"
    /\ plays' = <<>>
    /\ summary' = NoSummary
    /\ postedSet' = <<>>
    /\ toPost' = <<>>
    /\ shouldExit' = FALSE
    /\ UNCHANGED <<options, stateFile, tweets, upstream, clock, feedFrame>>

\* runCycle, lines 65-72: a fetch throws; main rejects and the process exits
FetchFails ==
    /\ fpc = "cycle"
    /\ ProcessGone

\* runCycle, lines 65-92: the first cycle in bootstrap mode "latest" seeds
\* every play of the fetch as posted and returns false
SeedBootstrap ==
    /\ fpc = "cycle"
    /\ ~state.bootstrapped
    /\ options.bootstrapMode = "latest"
    /\ \E n \in upstream..MaxPlays :
          /\ n > 0
          /\ upstream' = n
          /\ state' = [state EXCEPT
                          !.bootstrapped = TRUE,
                          !.postedPlayKeys = compactPostedKeys(AddAll(state.postedPlayKeys, Fetched(n)))]
    /\ plays' = <<>>
    /\ summary' = NoSummary
    /\ postedSet' = <<>>
    /\ toPost' = <<>>
    /\ shouldExit' = FALSE
    /\ fpc' = "saving"
    /\ UNCHANGED <<options, stateFile, tweets, clock, starts, feedFrame>>

\* runCycle, lines 65-96: fetch, extract, and choose the plays to post
BeginCycle ==
    /\ fpc = "cycle"
    /\ \E n \in upstream..MaxPlays : \E official \in BOOLEAN : \E likely \in BOOLEAN :
          /\ state.bootstrapped \/ options.bootstrapMode = "all" \/ n = 0
          /\ likely => n > 0
          /\ upstream' = n
          /\ plays' = Fetched(n)
          /\ summary' = [official |-> official, likely |-> likely]
          /\ toPost' = Slice(Unposted(Fetched(n), state.postedPlayKeys), options.maxPostsPerCycle)
    /\ state' = [state EXCEPT !.bootstrapped = TRUE]
    /\ postedSet' = state.postedPlayKeys
    /\ fpc' = "posting"
    /\ UNCHANGED <<options, stateFile, shouldExit, tweets, clock, starts, feedFrame>>

\* runCycle, lines 98-124: one iteration of the posting loop
PostPlay ==
    /\ fpc = "posting"
    /\ toPost # <<>>
    /\ tweets' = ClientCalls(options, state, tweets, "play", Head(toPost))
    /\ postedSet' = SetAdd(postedSet, Head(toPost))
    /\ state' = [AfterTweet(state, sendTweet(options, state, tweets)) EXCEPT
                    !.postedPlayKeys = compactPostedKeys(SetAdd(postedSet, Head(toPost)))]
    /\ toPost' = Tail(toPost)
    /\ UNCHANGED <<options, stateFile, fpc, plays, summary, shouldExit, upstream, clock, starts, feedFrame>>

\* runCycle, line 107: the posting call throws; main rejects and the process exits
PostPlayFails ==
    /\ fpc = "posting"
    /\ toPost # <<>>
    /\ ~options.dryRun
    /\ ProcessGone

\* lines 126-155 and 184-186 with the values of finalCandidateAt and pendingPlays
DecideFinal(candidateAt, pending) ==
    /\ state' = [state EXCEPT !.finalCandidateAt = candidateAt]
    /\ IF shouldPostFinalNow(options, state, pending, summary, graceSatisfied(candidateAt, clock, options))
       THEN /\ fpc' = "final"
            /\ shouldExit' = shouldExit
       ELSE /\ fpc' = "saving"
            /\ shouldExit' = (/\ shouldExitForFinal(summary, graceSatisfied(candidateAt, clock, options))
                              /\ (~options.postFinal \/ state.finalPosted)
                              /\ ~pending)

\* runCycle, lines 126-155 (and 184-186 when no final tweet is due)
FinishCycle ==
    /\ fpc = "posting"
    /\ toPost = <<>>
    /\ DecideFinal(FinalCandidateAt(state, summary, clock), pendingPlays(plays, postedSet))
    /\ plays' = <<>>
    /\ postedSet' = <<>>
    /\ summary' = NoSummary
    /\ UNCHANGED <<options, stateFile, toPost, tweets, upstream, clock, starts, feedFrame>>

\* runCycle, lines 156-186: the final tweet
PostFinal ==
    /\ fpc = "final"
    /\ tweets' = ClientCalls(options, state, tweets, "final", NullNum)
    /\ state' = [AfterTweet(state, sendTweet(options, state, tweets)) EXCEPT
                    !.finalPosted = TRUE, !.finalCandidateAt = NullNum]
    /\ shouldExit' = TRUE
    /\ fpc' = "saving"
    /\ UNCHANGED <<options, stateFile, plays, summary, postedSet, toPost, upstream, clock, starts, feedFrame>>

\* runCycle, line 165: the posting call throws
PostFinalFails ==
    /\ fpc = "final"
    /\ ~options.dryRun
    /\ ProcessGone

\* main, lines 54-58: saveState, then leave the loop or sleep
SaveState ==
    /\ fpc = "saving"
    /\ stateFile' = <<state>>
    /\ fpc' = IF options.once \/ shouldExit THEN "exited" ELSE "sleeping"
    /\ UNCHANGED <<options, state, plays, summary, postedSet, toPost, shouldExit, tweets,
                   upstream, clock, starts, feedFrame>>

\* main, line 60: sleep(intervalMs)
Sleep ==
    /\ fpc = "sleeping"
    /\ clock < MaxClock
    /\ clock' = clock + 1
    /\ fpc' = "cycle"
    /\ UNCHANGED <<options, stateFile, state, plays, summary, postedSet, toPost, shouldExit,
                   tweets, upstream, starts, feedFrame>>

\* the supervisor stops the feed process (SIGTERM) while it waits
Kill ==
    /\ fpc \in {"saving", "sleeping"}
    /\ ProcessGone

Init ==
    /\ options \in OptionPool
    /\ stateFile = <<>>
    /\ state = FreshState
    /\ fpc = "down"
    /\ plays = <<>>
    /\ summary = NoSummary
    /\ postedSet = <<>>
    /\ toPost = <<>>
    /\ shouldExit = FALSE
    /\ tweets = <<>>
    /\ upstream = 0
    /\ clock = 0
    /\ starts = 0
    /\ FeedAlone

Next ==
    \/ StartProcess
    \/ FetchFails
    \/ SeedBootstrap
    \/ BeginCycle
    \/ PostPlay
    \/ PostPlayFails
    \/ FinishCycle
    \/ PostFinal
    \/ PostFinalFails
    \/ SaveState
    \/ Sleep
    \/ Kill

Spec == Init /\ [][Next]_vars

\* ---- the feed of a game that is over: the summary stays officially final,
\* the play list has stopped changing, every fetch and posting call returns
\* and the process is left alone.  Each step is the program's own progress
\* (a fetch or post that returns, the write of the file, the timer), hence
\* the weak fairness of the steps.

FinalGameOptionPool ==
    OptionPool \cup
    { [bootstrapMode |-> "all", threadMode |-> "reply", maxPostsPerCycle |-> 1,
       postFinal |-> FALSE, once |-> FALSE, dryRun |-> FALSE, finalGrace |-> 1],
      [bootstrapMode |-> "latest", threadMode |-> "none", maxPostsPerCycle |-> 1,
       postFinal |-> TRUE, once |-> TRUE, dryRun |-> FALSE, finalGrace |-> 1] }

\* the tweets an earlier process made for the first count plays
PriorTweets(opts, count) ==
    IF opts.dryRun THEN <<>>
    ELSE [i \in 1..count |->
            [kind |-> "play", key |-> i,
             replyTo |-> IF opts.threadMode = "reply" /\ i > 1 THEN i - 1 ELSE NullNum,
             id |-> i]]

\* the state file that process left behind
PriorFile(opts, count) ==
    <<[bootstrapped |-> TRUE, postedPlayKeys |-> Fetched(count),
       lastTweetId |-> IF count = 0 THEN NullNum ELSE IF opts.dryRun THEN 0 - count ELSE count,
       rootTweetId |-> IF count = 0 THEN NullNum ELSE IF opts.dryRun THEN 0 - 1 ELSE 1,
       finalPosted |-> FALSE, finalCandidateAt |-> NullNum]>>

StartOnce == fpc = "down" /\ StartProcess

SeedFinalGame == SeedBootstrap /\ upstream' = upstream

BeginFinalGameCycle == BeginCycle /\ upstream' = upstream /\ summary'.official

InitFinalGame ==
    /\ options \in FinalGameOptionPool
    /\ upstream \in 0..MaxPlays
    /\ \/ stateFile = <<>> /\ tweets = <<>>
       \/ \E count \in 0..upstream :
             stateFile = PriorFile(options, count) /\ tweets = PriorTweets(options, count)
    /\ state = FreshState
    /\ fpc = "down"
    /\ plays = <<>>
    /\ summary = NoSummary
    /\ postedSet = <<>>
    /\ toPost = <<>>
    /\ shouldExit = FALSE
    /\ clock = 0
    /\ starts = 0
    /\ FeedAlone

NextFinalGame ==
    \/ StartOnce
    \/ SeedFinalGame
    \/ BeginFinalGameCycle
    \/ PostPlay
    \/ FinishCycle
    \/ PostFinal
    \/ SaveState
    \/ Sleep

SpecFinalGame == InitFinalGame /\ [][NextFinalGame]_vars /\ WF_vars(NextFinalGame)

----------------------------------------------------------------------------
(* Scoring decision context (text.ts 1373-1500, 1586-1592).  A null        *)
(* context is NoContext; a null play code is the empty sequence; the       *)
(* confidence is kept as the decimal numeral the source writes.            *)

\* toStringValue on a string or null
toStringValue(value) == IF trim(value) = <<"-">> THEN <<>> ELSE trim(value)

RECURSIVE TakeWord(_)
TakeWord(s) == IF s = <<>> \/ IsSpace(s[1]) THEN <<>> ELSE <<s[1]>> \o TakeWord(Tail(s))

RECURSIVE DropWord(_)
DropWord(s) == IF s = <<>> \/ IsSpace(s[1]) THEN s ELSE DropWord(Tail(s))

\* s.split(/\s+/).filter((part) => part.length > 0)
RECURSIVE SplitSpaces(_)
SplitSpaces(s) ==
    IF s = <<>> THEN <<>>
    ELSE IF IsSpace(s[1]) THEN SplitSpaces(Tail(s))
    ELSE <<TakeWord(s)>> \o SplitSpaces(DropWord(s))

\* /^[A-Z0-9]+$/
IsCodeToken(s) == s # <<>> /\ \A i \in 1..Len(s) : IsUpper(s[i]) \/ IsDigit(s[i])

\* /^\d+RBI$/
IsRbiToken(s) ==
    /\ Len(s) >= 4
    /\ MatchesAt(s, Len(s) - 2, <<"R","B","I">>)
    /\ AllDigits(SubSeq(s, 1, Len(s) - 3))

PlayCodeOf(parts) == IF IsCodeToken(parts[1]) /\ ~IsRbiToken(parts[1]) THEN parts[1] ELSE <<>>

\* parts.find((part) => /^\d+$/.test(part)) ?? null
RECURSIVE FirstAllDigits(_)
FirstAllDigits(parts) ==
    IF parts = <<>> THEN <<>>
    ELSE IF AllDigits(parts[1]) THEN parts[1]
    ELSE FirstAllDigits(Tail(parts))

\* the digits of the location token that are fielder codes (1 to 9)
RECURSIVE ValidFielderCodes(_)
ValidFielderCodes(token) ==
    IF token = <<>> THEN <<>>
    ELSE IF DigitValue(token[1]) >= 1 /\ DigitValue(token[1]) <= 9
         THEN <<DigitValue(token[1])>> \o ValidFielderCodes(Tail(token))
         ELSE ValidFielderCodes(Tail(token))

FielderAbbreviations == <<"P", "C", "1B", "2B", "3B", "SS", "LF", "CF", "RF">>
FielderNames ==
    <<"pitcher", "catcher", "first base", "second base", "third base", "shortstop",
      "left field", "center field", "right field">>

mapFielderCodeToLocation(code) ==
    IF code >= 1 /\ code <= 9
    THEN [code |-> code, abbreviation |-> FielderAbbreviations[code], name |-> FielderNames[code]]
    ELSE [code |-> code, abbreviation |-> "UNK", name |-> "unknown"]

MapLocations(codes) == [i \in 1..Len(codes) |-> mapFielderCodeToLocation(codes[i])]

RECURSIVE DigitRunEnd(_, _)
DigitRunEnd(s, i) == IF i + 1 <= Len(s) /\ IsDigit(s[i + 1]) THEN DigitRunEnd(s, i + 1) ELSE i

RECURSIVE SkipSpaces(_, _)
SkipSpaces(s, i) == IF i <= Len(s) /\ IsSpace(s[i]) THEN SkipSpaces(s, i + 1) ELSE i

\* RBI\b at position j
RbiWordAt(s, j) == MatchesAt(s, j, <<"R","B","I">>) /\ ~(j + 3 <= Len(s) /\ IsWordChar(s[j + 3]))

\* /(\d+)\s*RBI\b/ matches at position i
RbiMatchAt(s, i) == IsDigit(s[i]) /\ RbiWordAt(s, SkipSpaces(s, DigitRunEnd(s, i) + 1))

RbiMatchValue(s, i) == ParseDigits(SubSeq(s, i, DigitRunEnd(s, i)))

\* lines 1397-1398
RbiOf(normalized) ==
    IF \E i \in 1..Len(normalized) : RbiMatchAt(normalized, i)
    THEN RbiMatchValue(normalized,
            CHOOSE i \in 1..Len(normalized) :
                RbiMatchAt(normalized, i) /\ \A j \in 1..(i - 1) : ~RbiMatchAt(normalized, j))
    ELSE IF ContainsPhrase(normalized, <<"R","B","I">>) THEN 1
    ELSE NullNum

NoContext == [present |-> FALSE]

ContextOfCodes(playCode, codes, rbi) ==
    [present |-> TRUE,
     playCode |-> playCode,
     fielderCodes |-> codes,
     fieldLocations |-> MapLocations(codes),
     rbi |-> rbi,
     locationSource |-> IF Len(codes) > 0 THEN "scorecard" ELSE "none",
     locationConfidence |-> IF Len(codes) > 0 THEN "0.9" ELSE "0"]

ContextOfParts(parts, normalized) ==
    ContextOfCodes(PlayCodeOf(parts), ValidFielderCodes(FirstAllDigits(parts)), RbiOf(normalized))

ContextOfNormalized(normalized) == ContextOfParts(SplitSpaces(normalized), normalized)

parseScoringDecisionContext(decision) ==
    IF toStringValue(decision) = <<>> THEN NoContext
    ELSE ContextOfNormalized(toUpperCase(toStringValue(decision)))

\* the patterns of parseFieldLocationsFromText in the order of its addMatches calls
OutfieldPreps == {<<"t","o">>, <<"i","n","t","o">>, <<"t","o","w","a","r","d">>, <<"t","o","w","a","r","d","s">>, <<"d","o","w","n">>}
InfieldPreps == {<<"t","o">>, <<"t","o","w","a","r","d">>, <<"t","o","w","a","r","d","s">>}
LocationPatterns ==
    << [code |-> 9, preps |-> OutfieldPreps, deep |-> TRUE, targets |-> {<<"r","i","g","h","t"," ","f","i","e","l","d">>, <<"r","f">>}],
       [code |-> 8, preps |-> OutfieldPreps, deep |-> TRUE, targets |-> {<<"c","e","n","t","e","r"," ","f","i","e","l","d">>, <<"c","f">>}],
       [code |-> 7, preps |-> OutfieldPreps, deep |-> TRUE, targets |-> {<<"l","e","f","t"," ","f","i","e","l","d">>, <<"l","f">>}],
       [code |-> 1, preps |-> InfieldPreps, deep |-> FALSE, targets |-> {<<"p","i","t","c","h","e","r">>, <<"p">>}],
       [code |-> 2, preps |-> InfieldPreps, deep |-> FALSE, targets |-> {<<"c","a","t","c","h","e","r">>, <<"c">>}],
       [code |-> 3, preps |-> InfieldPreps, deep |-> FALSE, targets |-> {<<"f","i","r","s","t"," ","b","a","s","e">>, <<"1","b">>}],
       [code |-> 4, preps |-> InfieldPreps, deep |-> FALSE, targets |-> {<<"s","e","c","o","n","d"," ","b","a","s","e">>, <<"2","b">>}],
       [code |-> 5, preps |-> InfieldPreps, deep |-> FALSE, targets |-> {<<"t","h","i","r","d"," ","b","a","s","e">>, <<"3","b">>}],
       [code |-> 6, preps |-> InfieldPreps, deep |-> FALSE, targets |-> {<<"s","h","o","r","t","s","t","o","p">>, <<"s","s">>}] >>

\* (?:target)\b at position j
TargetAt(lower, j, targets) ==
    \E t \in targets : MatchesAt(lower, j, t) /\ WordBoundaryAt(lower, j + Len(t))

\* (?:deep\s+)?(?:target)\b at position k
DeepTargetAt(lower, k, pattern) ==
    \/ TargetAt(lower, k, pattern.targets)
    \/ /\ pattern.deep
       /\ MatchesAt(lower, k, <<"d","e","e","p">>)
       /\ k + 4 <= Len(lower)
       /\ IsSpace(lower[k + 4])
       /\ TargetAt(lower, SkipSpaces(lower, k + 4), pattern.targets)

\* \s+(?:deep\s+)?(?:target)\b at position j
AfterPrep(lower, j, pattern) ==
    /\ j <= Len(lower)
    /\ IsSpace(lower[j])
    /\ DeepTargetAt(lower, SkipSpaces(lower, j), pattern)

\* the whole pattern matches at position i
LocationMatchAt(lower, i, pattern) ==
    /\ WordBoundaryAt(lower, i)
    /\ \E p \in pattern.preps : MatchesAt(lower, i, p) /\ AfterPrep(lower, i + Len(p), pattern)

\* match.index + 1 of lower.match(pattern), 0 when there is no match
FirstMatchIndex(lower, pattern) ==
    IF \E i \in 1..Len(lower) : LocationMatchAt(lower, i, pattern)
    THEN CHOOSE i \in 1..Len(lower) :
            LocationMatchAt(lower, i, pattern) /\ \A j \in 1..(i - 1) : ~LocationMatchAt(lower, j, pattern)
    ELSE 0

\* lines 1492-1499: the first pattern in sorted order (the sort is stable)
FirstLocation(index) ==
    IF \A k \in 1..Len(index) : index[k] = 0 THEN <<>>
    ELSE << mapFielderCodeToLocation(LocationPatterns[
              CHOOSE k \in 1..Len(index) :
                 /\ index[k] > 0
                 /\ \A m \in 1..Len(index) :
                       index[m] > 0 => (index[k] < index[m] \/ (index[k] = index[m] /\ k <= m))].code) >>

MatchIndexes(lower) == [k \in 1..Len(LocationPatterns) |-> FirstMatchIndex(lower, LocationPatterns[k])]

parseFieldLocationsFromText(text) == FirstLocation(MatchIndexes(toLowerCase(text)))

LocationCodes(locations) == [i \in 1..Len(locations) |-> locations[i].code]

\* lines 1417-1440 with base and textLocations computed
ResolveWith(base, textLocations) ==
    IF Len(textLocations) > 0
    THEN IF base.present
         THEN [base EXCEPT !.fielderCodes = LocationCodes(textLocations),
                           !.fieldLocations = textLocations,
                           !.locationSource = "text",
                           !.locationConfidence = "1"]
         ELSE [present |-> TRUE,
               playCode |-> <<>>,
               fielderCodes |-> LocationCodes(textLocations),
               fieldLocations |-> textLocations,
               rbi |-> NullNum,
               locationSource |-> "text",
               locationConfidence |-> "1"]
    ELSE base

\* mutant: the scorecard shorthand wins when it has fielder codes
resolveScoringDecisionContext_ShorthandFirst(decision, text) ==
    IF parseScoringDecisionContext(decision).present
       /\ parseScoringDecisionContext(decision).locationSource = "scorecard"
    THEN parseScoringDecisionContext(decision)
    ELSE ResolveWith(parseScoringDecisionContext(decision), parseFieldLocationsFromText(text))

resolveScoringDecisionContext(decision, text) ==
    ResolveWith(parseScoringDecisionContext(decision), parseFieldLocationsFromText(text))

\* what the callers read from a context that may be null (lines 929-930, 961-964)
LocationSourceOf(context) == IF context.present THEN context.locationSource ELSE "none"
LocationConfidenceOf(context) == IF context.present THEN context.locationConfidence ELSE "0"
FielderCodesOf(context) == IF context.present THEN context.fielderCodes ELSE <<>>
FieldLocationsOf(context) == IF context.present THEN context.fieldLocations ELSE <<>>
PlayCodeOfContext(context) == IF context.present THEN context.playCode ELSE <<>>
RbiOfContext(context) == IF context.present THEN context.rbi ELSE NullNum

DecisionPool ==
    { <<>>, <<"-">>, <<"h","r"," ","9">>, <<"1","B"," ","7"," ","R","B","I">>, <<"S","F"," ","8"," ","2","R","B","I">>, <<"2","R","B","I">>, <<"E"," ","0">>, <<"6","3">>, <<"K">>, <<"6","-","3">>, <<"F"," ","1","0"," ","r","b","i">> }

TextPool ==
    { <<"A","l"," ","h","o","m","e","r","e","d"," ","t","o"," ","r","i","g","h","t"," ","f","i","e","l","d",","," ","R","B","I",".">>,
      <<"A","l"," ","s","i","n","g","l","e","d"," ","t","o"," ","l","e","f","t"," ","f","i","e","l","d",".">>,
      <<"A","l"," ","g","r","o","u","n","d","e","d"," ","o","u","t"," ","t","o"," ","s","s",".">>,
      <<"A","l"," ","f","l","i","e","d"," ","o","u","t"," ","t","o"," ","d","e","e","p"," ","c","f">>,
      <<"A","l"," ","w","a","l","k","e","d",".">>,
      <<"A","l"," ","d","o","u","b","l","e","d"," ","d","o","w","n"," ","t","h","e"," ","r","f"," ","l","i","n","e">>,
      <<"A","l"," ","s","i","n","g","l","e","d"," ","t","o"," ","p","i","t","c","h","e","r",","," ","a","d","v","a","n","c","e","d"," ","t","o"," ","s","e","c","o","n","d"," ","b","a","s","e">>,
      <<"A","l"," ","l","i","n","e","d"," ","i","n","t","o"," "," ","c","e","n","t","e","r"," ","f","i","e","l","d">>,
      <<"A","l"," ","o","u","t"," ","a","t"," ","f","i","r","s","t"," ","c"," ","t","o"," ","2","b">>,
      <<"A","l"," ","s","i","n","g","l","e","d"," ","t","o","w","a","r","d","s"," ","3","B",".">> }

ResolveCall ==
    /\ spc = "call"
    /\ resolved' = resolveScoringDecisionContext(scoringDecisionArg, playTextArg)
    /\ spc' = "done"
    /\ UNCHANGED <<scoringDecisionArg, playTextArg, scoringFrame>>

InitScoring ==
    /\ scoringDecisionArg \in DecisionPool
    /\ playTextArg \in TextPool
    /\ resolved = NoContext
    /\ spc = "call"
    /\ ScoringAlone

NextScoring == ResolveCall

SpecScoring == InitScoring /\ [][NextScoring]_vars

----------------------------------------------------------------------------
(* Player names and the player registry (text.ts 1097-1154, 1209-1254).    *)
(* A null name, jersey or position is <<>>, NullNum or "".                 *)

IndexOfChar(s, c) == CHOOSE i \in 1..Len(s) : s[i] = c /\ \A j \in 1..(i - 1) : s[j] # c

\* `${firstName} ${lastName}` when both are non-empty, else the clean name
CommaName(clean, lastName, firstName) ==
    IF firstName = <<>> \/ lastName = <<>>
    THEN trim(collapseSpaces(clean))
    ELSE trim(collapseSpaces(firstName \o <<" ">> \o lastName))

\* lines 1224-1235 for a non-null clean value
DisplayNameOfClean(clean) ==
    IF ~HasChar(clean, ",") THEN trim(collapseSpaces(clean))
    ELSE CommaName(clean,
                   trim(SubSeq(clean, 1, IndexOfChar(clean, ",") - 1)),
                   trim(SubSeq(clean, IndexOfChar(clean, ",") + 1, Len(clean))))

\* null is the empty sequence
normalizePlayerDisplayName(value) ==
    IF toStringValue(value) = <<>> THEN <<>> ELSE DisplayNameOfClean(toStringValue(value))

\* .replace(/[^\w]+/g, " ")
NonWordToSpace(s) == [i \in 1..Len(s) |-> IF IsWordChar(s[i]) THEN s[i] ELSE " "]

\* .toLowerCase().replace(/[^\w]+/g, " ").replace(/\s+/g, " ").trim()
NormalizeWords(s) == trim(collapseSpaces(NonWordToSpace(toLowerCase(s))))

normalizePlayText(value) == NormalizeWords(value)

normalizeName(value) ==
    IF normalizePlayerDisplayName(value) = <<>> THEN NormalizeWords(value)
    ELSE NormalizeWords(normalizePlayerDisplayName(value))

RECURSIVE CollapseDashes(_)
CollapseDashes(s) ==
    IF Len(s) < 2 THEN s
    ELSE IF s[1] = "-" /\ s[2] = "-" THEN CollapseDashes(Tail(s))
    ELSE <<s[1]>> \o CollapseDashes(Tail(s))

RECURSIVE StripDashes(_)
StripDashes(s) ==
    IF s # <<>> /\ s[1] = "-" THEN StripDashes(Tail(s))
    ELSE IF s # <<>> /\ s[Len(s)] = "-" THEN StripDashes(SubSeq(s, 1, Len(s) - 1))
    ELSE s

SlugChars(s) == [i \in 1..Len(s) |-> IF IsLower(s[i]) \/ IsDigit(s[i]) THEN s[i] ELSE "-"]

SlugOrUnknown(slug) == IF slug = <<>> THEN <<"u","n","k","n","o","w","n">> ELSE slug

slugForId(value) == SlugOrUnknown(StripDashes(CollapseDashes(SlugChars(toLowerCase(value)))))

RECURSIVE FreeIndex(_, _, _)
FreeIndex(baseId, map, index) ==
    IF (baseId \o <<":">> \o Str(index)) \in DOMAIN map THEN FreeIndex(baseId, map, index + 1) ELSE index

uniqueId(baseId, map) ==
    IF baseId \notin DOMAIN map THEN baseId ELSE baseId \o <<":">> \o Str(FreeIndex(baseId, map, 2))

SideChars(side) == IF side = "away" THEN <<"a","w","a","y">> ELSE <<"h","o","m","e">>

\* mutant: the key is built from the name as written
SideNameKey_RawName(side, name) == SideChars(side) \o <<"|">> \o toLowerCase(name)

\* `${side}|${normalizedName}`
SideNameKey(side, name) == SideChars(side) \o <<"|">> \o normalizeName(name)

DisplayNameOrName(name) ==
    IF normalizePlayerDisplayName(name) = <<>> THEN name ELSE normalizePlayerDisplayName(name)

\* `${side}:${jerseyPart}:${slugForId(displayName)}`
BaseId(side, name, jersey) ==
    SideChars(side) \o <<":">> \o (IF jersey = NullNum THEN <<"n","a">> ELSE Str(jersey))
        \o <<":">> \o slugForId(DisplayNameOrName(name))

PushNew(list, value) == IF value \in {list[i] : i \in 1..Len(list)} THEN list ELSE Append(list, value)

\* lines 1109-1117: the existing player takes a new jersey number, position and side
MergedPlayer(existing, side, jersey, position) ==
    [existing EXCEPT
        !.jerseyNumbers = IF jersey # NullNum THEN PushNew(@, jersey) ELSE @,
        !.positions = IF position # "" THEN PushNew(@, position) ELSE @,
        !.sides = PushNew(@, side)]

\* lines 1105-1119: the key is known
RegisterExisting(reg, id, side, jersey, position) ==
    [playersById |-> [reg.playersById EXCEPT ![id] = MergedPlayer(@, side, jersey, position)],
     idBySideAndName |-> reg.idBySideAndName,
     id |-> id]

\* lines 1122-1135: a new player
RegisterNew(reg, key, playerId, side, name, jersey, position) ==
    [playersById |->
        [p \in DOMAIN reg.playersById \cup {playerId} |->
            IF p = playerId
            THEN [playerId |-> playerId,
                  name |-> DisplayNameOrName(name),
                  normalizedName |-> normalizeName(name),
                  sides |-> <<side>>,
                  jerseyNumbers |-> IF jersey = NullNum THEN <<>> ELSE <<jersey>>,
                  positions |-> IF position # "" THEN <<position>> ELSE <<>>]
            ELSE reg.playersById[p]],
     idBySideAndName |->
        [k \in DOMAIN reg.idBySideAndName \cup {key} |->
            IF k = key THEN playerId ELSE reg.idBySideAndName[k]],
     id |-> playerId]

RegisterKeyed(reg, key, side, name, jersey, position) ==
    IF key \in DOMAIN reg.idBySideAndName
    THEN RegisterExisting(reg, reg.idBySideAndName[key], side, jersey, position)
    ELSE RegisterNew(reg, key, uniqueId(BaseId(side, name, jersey), reg.playersById),
                     side, name, jersey, position)

\* register: the registry afterwards and the id returned
register(reg, side, name, jersey, position) ==
    RegisterKeyed(reg, SideNameKey(side, name), side, name, jersey, position)

Mention(side, name, jersey, position) ==
    [side |-> side, name |-> name, jersey |-> jersey, position |-> position]

MentionPool ==
    { Mention("away", <<"S","m","i","t","h",","," ","J","o","h","n">>, 7, ""),
      Mention("away", <<"J","o","h","n"," ","S","m","i","t","h">>, NullNum, "p"),
      Mention("away", <<"j","o","h","n"," "," ","S","M","I","T","H">>, 12, "ss"),
      Mention("home", <<"J","o","h","n"," ","S","m","i","t","h">>, 7, ""),
      Mention("away", <<"J","_","S">>, NullNum, ""),
      Mention("away", <<"J"," ","S">>, NullNum, "p"),
      Mention("away", <<"J","_","_","S">>, NullNum, ""),
      Mention("away", <<"-">>, NullNum, "") }

StoreRegistered(result, mention) ==
    /\ playersById' = result.playersById
    /\ idBySideAndName' = result.idBySideAndName
    /\ registerCalls' = Append(registerCalls, [side |-> mention.side, name |-> mention.name, id |-> result.id])

\* one call of register
Register ==
    /\ Len(registerCalls) < MaxRegisterCalls
    /\ \E mention \in MentionPool :
          StoreRegistered(
              register([playersById |-> playersById, idBySideAndName |-> idBySideAndName],
                       mention.side, mention.name, mention.jersey, mention.position),
              mention)
    /\ UNCHANGED registryFrame

InitRegistry ==
    /\ playersById = EmptyMap
    /\ idBySideAndName = EmptyMap
    /\ registerCalls = <<>>
    /\ RegistryAlone

NextRegistry == Register

SpecRegistry == InitRegistry /\ [][NextRegistry]_vars

----------------------------------------------------------------------------
(* The scorekeeping unifier (text.ts 845-1088, 1502-1527).  A unified play *)
(* keeps the fields the properties below read; scoringMatchIndex is the    *)
(* local const of line 914 (the index + 1, 0 for null), kept in the play   *)
(* so that the merge can be observed; for a standalone play it is the      *)
(* index + 1 of its playId.                                                *)

\* /\b(top|bot|bottom)\s*(\d+)/i matches at position i
HalfInningWordAt(lower, i, word) ==
    /\ MatchesAt(lower, i, word)
    /\ SkipSpaces(lower, i + Len(word)) <= Len(lower)
    /\ IsDigit(lower[SkipSpaces(lower, i + Len(word))])

HalfInningAt(lower, i) ==
    /\ WordBoundaryAt(lower, i)
    /\ \E word \in {<<"t","o","p">>, <<"b","o","t">>, <<"b","o","t","t","o","m">>} : HalfInningWordAt(lower, i, word)

\* the match at position i: match[1] is the first alternative that matches
HalfInningOf(lower, i, word) ==
    [half |-> IF word = <<"t","o","p">> THEN "top" ELSE "bottom",
     inning |-> ParseDigits(SubSeq(lower, SkipSpaces(lower, i + Len(word)),
                                   DigitRunEnd(lower, SkipSpaces(lower, i + Len(word)))))]

HalfInningMatch(lower, i) ==
    IF HalfInningWordAt(lower, i, <<"t","o","p">>) THEN HalfInningOf(lower, i, <<"t","o","p">>)
    ELSE IF HalfInningWordAt(lower, i, <<"b","o","t">>) THEN HalfInningOf(lower, i, <<"b","o","t">>)
    ELSE HalfInningOf(lower, i, <<"b","o","t","t","o","m">>)

parseHalfInningLower(lower) ==
    IF \E i \in 1..Len(lower) : HalfInningAt(lower, i)
    THEN HalfInningMatch(lower,
            CHOOSE i \in 1..Len(lower) : HalfInningAt(lower, i) /\ \A j \in 1..(i - 1) : ~HalfInningAt(lower, j))
    ELSE [half |-> NoHalf, inning |-> NullNum]

parseHalfInning(value) == parseHalfInningLower(toLowerCase(value))

countRunsScoredLower(normalized) ==
    CountPhrase(normalized, <<"s","c","o","r","e","d">>) + CountPhrase(normalized, <<"s","c","o","r","e","s">>)
        + (IF ContainsPhrase(normalized, <<"h","o","m","e","r","e","d">>) \/ ContainsPhrase(normalized, <<"h","o","m","e"," ","r","u","n">>) THEN 1 ELSE 0)

countRunsScored(text) == countRunsScoredLower(toLowerCase(text))

\* parseScoringEvent with the inning parsed
ScoringEventOf(play, inning) ==
    [inningNumber |-> inning.inning,
     half |-> inning.half,
     battingTeam |-> play.team,
     batter |-> normalizePlayerDisplayName(play.batter),
     pitcher |-> normalizePlayerDisplayName(play.pitcher),
     outs |-> play.outs,
     text |-> play.play,
     scoringDecision |-> play.scoringDecision,
     scoringDecisionContext |-> resolveScoringDecisionContext(play.scoringDecision, play.play),
     runsScoredOnPlay |-> countRunsScored(play.play)]

parseScoringEvent(play) == ScoringEventOf(play, parseHalfInning(play.inning))

ScoringPlay(team, inning, decision, play, batter, pitcher, outs) ==
    [team |-> team, inning |-> inning, scoringDecision |-> decision, play |-> play,
     batter |-> batter, pitcher |-> pitcher, outs |-> outs]

ScoringPlayPool ==
    { ScoringPlay(<<"U","S","M">>, <<"T","o","p"," ","3">>, <<"1","B"," ","7"," ","R","B","I">>, <<"A","l"," ","s","i","n","g","l","e","d"," ","t","o"," ","l","e","f","t"," ","f","i","e","l","d",","," ","R","B","I",";"," ","C","y"," ","s","c","o","r","e","d",".">>, <<"A","l">>, <<"B","o">>, 1),
      ScoringPlay(<<"U","S","M">>, <<"T","o","p"," ","3">>, <<"H","R"," ","9">>, <<"A","l"," ","h","o","m","e","r","e","d"," ","t","o"," ","r","i","g","h","t"," ","f","i","e","l","d",","," ","R","B","I",".">>, <<"A","l">>, <<"B","o">>, 1),
      ScoringPlay(<<"U","S","M">>, <<"T","o","p"," ","3">>, <<>>, <<"A","l"," ","r","e","a","c","h","e","d",","," ","C","y"," ","s","c","o","r","e","d">>, <<"A","l">>, <<"B","o">>, 2),
      ScoringPlay(<<"U","L","M">>, <<"B","o","t"," ","4">>, <<"S","F"," ","8"," ","R","B","I">>, <<"D","i"," ","f","l","i","e","d"," ","o","u","t"," ","t","o"," ","c","f",","," ","S","F",","," ","R","B","I",";"," ","E","d"," ","s","c","o","r","e","d",".">>, <<"D","i">>, <<"F","y">>, 1) }

PlayEvent(text, batter, pitcher, outs) ==
    [type |-> "play", half |-> NoHalf, text |-> text, batter |-> batter, pitcher |-> pitcher, outs |-> outs]

HalfEvent(half, text) ==
    [type |-> "half", half |-> half, text |-> text, batter |-> <<>>, pitcher |-> <<>>, outs |-> NullNum]

EventPool ==
    { HalfEvent("top", <<"T","o","p"," ","o","f"," ","t","h","e"," ","3","r","d">>),
      [type |-> "summary", half |-> NoHalf, text |-> <<"I","n","n","i","n","g"," ","S","u","m","m","a","r","y",":"," ","1"," ","R">>, batter |-> <<>>,
       pitcher |-> <<>>, outs |-> NullNum],
      PlayEvent(<<"A","l"," ","s","i","n","g","l","e","d"," ","t","o"," ","l","e","f","t"," ","f","i","e","l","d",","," ","R","B","I",";"," ","C","y"," ","s","c","o","r","e","d",".">>, <<"A","l">>, <<"B","o">>, 1),
      PlayEvent(<<"A","l"," ","s","i","n","g","l","e","d"," ","u","p"," ","t","h","e"," ","m","i","d","d","l","e"," ","t","o"," ","c","f",";"," ","C","y"," ","s","c","o","r","e","d">>, <<"A","L">>, <<"B","o">>, 1) }

\* the string functions of the matcher, evaluated once per pool text
PoolTexts == {e.text : e \in EventPool} \cup {p.play : p \in ScoringPlayPool}
PoolNames ==
    {e.batter : e \in EventPool} \cup {e.pitcher : e \in EventPool}
        \cup {normalizePlayerDisplayName(p.batter) : p \in ScoringPlayPool}
        \cup {normalizePlayerDisplayName(p.pitcher) : p \in ScoringPlayPool}
NormalizedTexts == [text \in PoolTexts |-> normalizePlayText(text)]
NormalizedNames == [name \in PoolNames |-> normalizeName(name)]
RunsScored == [text \in PoolTexts |-> countRunsScored(text)]
TextContexts == [text \in PoolTexts |-> resolveScoringDecisionContext(<<>>, text)]
ScoringEventPool == [play \in ScoringPlayPool |-> parseScoringEvent(play)]

\* mutant: entries already merged are not skipped
Candidate_IgnoresUsed(timeline, used, inning, half, index) ==
    /\ timeline[index].inningNumber = inning
    /\ timeline[index].half = half

\* lines 1058-1064: the entry at index is unused and of this inning and half
Candidate(timeline, used, inning, half, index) ==
    /\ index \notin used
    /\ timeline[index].inningNumber = inning
    /\ timeline[index].half = half

\* line 1065
TextMatches(timeline, index, event) ==
    NormalizedTexts[timeline[index].text] = NormalizedTexts[event.text]

\* lines 1078-1082
FieldsMatch(timeline, index, event) ==
    /\ NormalizedNames[timeline[index].batter] = NormalizedNames[event.batter]
    /\ NormalizedNames[timeline[index].pitcher] = NormalizedNames[event.pitcher]
    /\ timeline[index].runsScoredOnPlay = RunsScored[event.text]

FirstIndex(indexes) == CHOOSE i \in indexes : \A j \in indexes : i <= j

\* the first loop, then the second, then null (0)
FirstOfPasses(textPass, fieldsPass) ==
    IF textPass # {} THEN FirstIndex(textPass)
    ELSE IF fieldsPass # {} THEN FirstIndex(fieldsPass)
    ELSE 0

\* mutant: only the exact text matches
findMatchingScoringEventIndex_TextOnly(timeline, used, inning, half, event) ==
    FirstOfPasses(
        {i \in 1..Len(timeline) : Candidate(timeline, used, inning, half, i) /\ TextMatches(timeline, i, event)},
        {})

\* the index + 1 of the matching entry, 0 for null
findMatchingScoringEventIndex(timeline, used, inning, half, event) ==
    FirstOfPasses(
        {i \in 1..Len(timeline) : Candidate(timeline, used, inning, half, i) /\ TextMatches(timeline, i, event)},
        {i \in 1..Len(timeline) : Candidate(timeline, used, inning, half, i) /\ FieldsMatch(timeline, i, event)})

BattingSide(half) == IF half = "top" THEN "away" ELSE IF half = "bottom" THEN "home" ELSE "none"
PitchingSide(side) == IF side = "away" THEN "home" ELSE IF side = "home" THEN "away" ELSE "none"

\* finalGame.finalScore.visitorTeam / homeTeam
TeamOfSide(side) == IF side = "away" THEN <<"U","S","M">> ELSE IF side = "home" THEN <<"U","L","M">> ELSE <<>>

\* teamTokenLookup as buildTeamTokenLookup builds it from the two team names
teamTokenLookup == [token \in {<<"u","s","m">>, <<"u","l","m">>} |-> IF token = <<"u","s","m">> THEN "away" ELSE "home"]

resolveSideFromTeamToken(token) ==
    IF normalizeName(token) \in DOMAIN teamTokenLookup THEN teamTokenLookup[normalizeName(token)] ELSE "none"

\* name && side ? playerRegistry.register(side, name, null, position) : null
RegisterOptional(reg, side, name, position) ==
    IF name # <<>> /\ side # "none"
    THEN register(reg, side, name, NullNum, position)
    ELSE [playersById |-> reg.playersById, idBySideAndName |-> reg.idBySideAndName, id |-> <<>>]

\* scoringMatch?.scoringDecisionContext ?? resolveScoringDecisionContext(null, event.text)
ContextOfMatch(timeline, matchIndex, event) ==
    IF matchIndex # 0 /\ timeline[matchIndex].scoringDecisionContext.present
    THEN timeline[matchIndex].scoringDecisionContext
    ELSE TextContexts[event.text]

\* scoringMatch?.scoringDecision ?? null
DecisionRawOfMatch(timeline, matchIndex) ==
    IF matchIndex # 0 THEN timeline[matchIndex].scoringDecision ELSE <<>>

\* lines 933-966
PlayByPlayPlay(st, inning, event, batterId, pitcherId, matchIndex, decisionRaw, context) ==
    [playId |-> <<"P", "-">> \o Str(inning) \o <<"-">>
                    \o (IF st.currentHalf = NoHalf THEN <<"u">> ELSE normalizeSignatureHalf(st.currentHalf))
                    \o <<"-">> \o Str(st.order + 1),
     source |-> "play_by_play",
     inning |-> inning,
     half |-> st.currentHalf,
     order |-> st.order + 1,
     battingSide |-> BattingSide(st.currentHalf),
     battingTeam |-> TeamOfSide(BattingSide(st.currentHalf)),
     text |-> event.text,
     batterId |-> batterId,
     batterName |-> normalizePlayerDisplayName(event.batter),
     pitcherId |-> pitcherId,
     pitcherName |-> normalizePlayerDisplayName(event.pitcher),
     runsScored |-> RunsScored[event.text],
     isScoringPlay |-> (matchIndex # 0 \/ RunsScored[event.text] > 0),
     outsAfterPlay |-> event.outs,
     decisionRaw |-> decisionRaw,
     decisionContext |-> context,
     fielderCodes |-> FielderCodesOf(context),
     fieldLocations |-> FieldLocationsOf(context),
     locationSource |-> LocationSourceOf(context),
     locationConfidence |-> LocationConfidenceOf(context),
     scoringMatchIndex |-> matchIndex]

UnifyMatched(st, timeline, inning, event, batterId, pitcherReg, matchIndex) ==
    [plays |-> Append(st.plays,
                  PlayByPlayPlay(st, inning, event, batterId, pitcherReg.id, matchIndex,
                                 DecisionRawOfMatch(timeline, matchIndex),
                                 ContextOfMatch(timeline, matchIndex, event))),
     used |-> IF matchIndex # 0 THEN st.used \cup {matchIndex} ELSE st.used,
     reg |-> [playersById |-> pitcherReg.playersById, idBySideAndName |-> pitcherReg.idBySideAndName],
     warnings |-> st.warnings,
     currentHalf |-> st.currentHalf,
     order |-> st.order + 1]

UnifyWithBatter(st, timeline, inning, event, batterReg) ==
    UnifyMatched(st, timeline, inning, event, batterReg.id,
                 RegisterOptional(batterReg, PitchingSide(BattingSide(st.currentHalf)), event.pitcher, "p"),
                 findMatchingScoringEventIndex(timeline, st.used, inning, st.currentHalf, event))

\* one iteration of inningBlock.events.forEach (lines 882-967)
UnifyEvent(st, timeline, inning, event) ==
    IF event.type = "half" THEN [st EXCEPT !.currentHalf = event.half]
    ELSE IF event.type # "play" THEN st
    ELSE UnifyWithBatter(st, timeline, inning, event,
                         RegisterOptional(st.reg, BattingSide(st.currentHalf), event.batter, ""))

RECURSIVE UnifyEvents(_, _, _, _)
UnifyEvents(st, timeline, inning, blockEvents) ==
    IF blockEvents = <<>> THEN st
    ELSE UnifyEvents(UnifyEvent(st, timeline, inning, Head(blockEvents)), timeline, inning, Tail(blockEvents))

\* finalGame.playByPlayByInning.forEach (lines 878-968): currentHalf and order start anew per block
RECURSIVE UnifyBlocks(_, _, _)
UnifyBlocks(st, timeline, blocks) ==
    IF blocks = <<>> THEN st
    ELSE UnifyBlocks(
            UnifyEvents([st EXCEPT !.currentHalf = NoHalf, !.order = 0], timeline,
                        Head(blocks).inning, Head(blocks).events),
            timeline, Tail(blocks))

\* /(?:to|into|toward)\s+[a-z0-9]+/i
TextualLocationAt(lower, i) ==
    \E p \in {<<"t","o">>, <<"i","n","t","o">>, <<"t","o","w","a","r","d">>} :
        /\ MatchesAt(lower, i, p)
        /\ i + Len(p) <= Len(lower)
        /\ IsSpace(lower[i + Len(p)])
        /\ SkipSpaces(lower, i + Len(p)) <= Len(lower)
        /\ (IsLower(lower[SkipSpaces(lower, i + Len(p))]) \/ IsDigit(lower[SkipSpaces(lower, i + Len(p))]))

HasTextualLocation(text) == \E i \in 1..Len(text) : TextualLocationAt(toLowerCase(text), i)

TextualLocations == [text \in PoolTexts |-> HasTextualLocation(text)]

\* lines 988-992
WarningsAfter(pushed, entry, index) ==
    IF Len(FieldLocationsOf(entry.scoringDecisionContext)) = 0 /\ TextualLocations[entry.text]
    THEN Append(pushed, index)
    ELSE pushed

\* lines 994-1027
StandalonePlay(entry, index, batterId, pitcherId) ==
    [playId |-> <<"S", "-">> \o Str(index),
     source |-> "scoring_summary",
     inning |-> entry.inningNumber,
     half |-> entry.half,
     order |-> NullNum,
     battingSide |-> resolveSideFromTeamToken(entry.battingTeam),
     battingTeam |-> entry.battingTeam,
     text |-> entry.text,
     batterId |-> batterId,
     batterName |-> normalizePlayerDisplayName(entry.batter),
     pitcherId |-> pitcherId,
     pitcherName |-> normalizePlayerDisplayName(entry.pitcher),
     runsScored |-> entry.runsScoredOnPlay,
     isScoringPlay |-> TRUE,
     outsAfterPlay |-> entry.outs,
     decisionRaw |-> entry.scoringDecision,
     decisionContext |-> entry.scoringDecisionContext,
     fielderCodes |-> FielderCodesOf(entry.scoringDecisionContext),
     fieldLocations |-> FieldLocationsOf(entry.scoringDecisionContext),
     locationSource |-> LocationSourceOf(entry.scoringDecisionContext),
     locationConfidence |-> LocationConfidenceOf(entry.scoringDecisionContext),
     scoringMatchIndex |-> index]

StandaloneEmitted(st, entry, index, batterId, pitcherReg) ==
    [plays |-> Append(st.plays, StandalonePlay(entry, index, batterId, pitcherReg.id)),
     used |-> st.used,
     reg |-> [playersById |-> pitcherReg.playersById, idBySideAndName |-> pitcherReg.idBySideAndName],
     warnings |-> WarningsAfter(st.warnings, entry, index),
     currentHalf |-> st.currentHalf,
     order |-> st.order]

StandaloneWithBatter(st, entry, index, batterReg) ==
    StandaloneEmitted(st, entry, index, batterReg.id,
        RegisterOptional(batterReg, PitchingSide(resolveSideFromTeamToken(entry.battingTeam)),
                         entry.pitcher, "p"))

\* one iteration of scoringTimeline.forEach (lines 970-1028)
UnifyStandalone(st, entry, index) ==
    IF index \in st.used THEN st
    ELSE StandaloneWithBatter(st, entry, index,
            RegisterOptional(st.reg, resolveSideFromTeamToken(entry.battingTeam), entry.batter, ""))

RECURSIVE UnifyStandalones(_, _, _)
UnifyStandalones(st, timeline, index) ==
    IF index > Len(timeline) THEN st
    ELSE UnifyStandalones(UnifyStandalone(st, timeline[index], index), timeline, index + 1)

\* the plays, usedScoring, the registry and the warnings after the call
buildUnifiedPlays(blocks, timeline, reg) ==
    UnifyStandalones(
        UnifyBlocks([plays |-> <<>>, used |-> {}, reg |-> reg, warnings |-> <<>>,
                     currentHalf |-> NoHalf, order |-> 0],
                    timeline, blocks),
        timeline, 1)

StoreUnified(result) ==
    /\ unifiedPlays' = result.plays
    /\ usedScoring' = result.used
    /\ warnings' = result.warnings
    /\ playersById' = result.reg.playersById
    /\ idBySideAndName' = result.reg.idBySideAndName

BuildUnifiedPlays ==
    /\ upc = "call"
    /\ StoreUnified(buildUnifiedPlays(finalGame, scoringTimeline,
                        [playersById |-> playersById, idBySideAndName |-> idBySideAndName]))
    /\ upc' = "done"
    /\ UNCHANGED <<finalGame, scoringTimeline, registerCalls, unifyFrame>>

InitUnify ==
    /\ \E n \in 0..MaxEvents : \E blockEvents \in [1..n -> EventPool] :
          finalGame = << [inning |-> 3, events |-> blockEvents] >>
    /\ \E m \in 0..MaxEntries : \E scoringPlays \in [1..m -> ScoringPlayPool] :
          scoringTimeline = [i \in 1..m |-> ScoringEventPool[scoringPlays[i]]]
    /\ unifiedPlays = <<>>
    /\ usedScoring = {}
    /\ warnings = <<>>
    /\ upc = "call"
    /\ playersById = EmptyMap
    /\ idBySideAndName = EmptyMap
    /\ registerCalls = <<>>
    /\ UnifyAlone

NextUnify == BuildUnifiedPlays

SpecUnify == InitUnify /\ [][NextUnify]_vars

----------------------------------------------------------------------------
(* Play State Deriver: deriveLivePlayStates (live-play-feed.ts 116-179)    *)
(* The states map is keyed by play.key; the keys of a play list are        *)
(* distinct, so a state is addressed here by the position of its play.     *)

Max(a, b) == IF a >= b THEN a ELSE b
Min(a, b) == IF a <= b THEN a ELSE b
OrZero(n) == IF n = NullNum THEN 0 ELSE n

\* /(\d+)\s*RBI/i matches at position i of the upper-cased text
RbiCountMatchAt(upper, i) ==
    IsDigit(upper[i]) /\ MatchesAt(upper, SkipSpaces(upper, DigitRunEnd(upper, i) + 1), <<"R","B","I">>)

\* lines 858-864 on the cleaned, upper-cased text
RbiCountOf(upper) ==
    IF \E i \in 1..Len(upper) : RbiCountMatchAt(upper, i)
    THEN RbiMatchValue(upper,
            CHOOSE i \in 1..Len(upper) :
                RbiCountMatchAt(upper, i) /\ \A j \in 1..(i - 1) : ~RbiCountMatchAt(upper, j))
    ELSE IF ContainsPhrase(upper, <<"R","B","I">>) THEN 1
    ELSE NullNum

parseRbiCount(value) ==
    IF value = <<>> THEN NullNum ELSE RbiCountOf(toUpperCase(cleanText(value)))

\* lines 845-849: the largest estimate, 1 for an un-annotated home run
RunsOfEstimates(lower, runs) ==
    IF runs = 0 /\ (ContainsPhrase(lower, <<"h","o","m","e","r","e","d">>) \/ ContainsPhrase(lower, <<"h","o","m","e"," ","r","u","n">>))
    THEN 1
    ELSE runs

RunsOfText(text, scoringDecision) ==
    RunsOfEstimates(toLowerCase(text),
        Max(CountPhrase(toLowerCase(text), <<"s","c","o","r","e","d">>),
            Max(OrZero(parseRbiCount(scoringDecision)), OrZero(parseRbiCount(text)))))

\* mutant: a substitution is estimated like any other play
estimateRunsScoredOnPlay_CountsSubstitutions(play) ==
    RunsOfText(cleanText(play.text), play.scoringDecision)

estimateRunsScoredOnPlay(play) ==
    IF play.isSubstitution THEN 0 ELSE RunsOfText(cleanText(play.text), play.scoringDecision)

OutPhrases == <<<<"s","t","r","u","c","k"," ","o","u","t">>, <<"l","i","n","e","d"," ","o","u","t">>, <<"g","r","o","u","n","d","e","d"," ","o","u","t">>, <<"f","l","i","e","d"," ","o","u","t">>, <<"f","o","u","l","e","d"," ","o","u","t">>, <<"p","o","p","p","e","d"," ","o","u","t">>, <<"o","u","t">>>>

\* lines 881-896 on the cleaned, lower-cased text
OutsOfMentions(lower, outAtMentions) ==
    IF outAtMentions > 0 THEN outAtMentions
    ELSE IF \E k \in 1..Len(OutPhrases) : ContainsPhrase(lower, OutPhrases[k]) THEN 1
    ELSE 0

OutsOfLower(lower) ==
    IF lower = <<>> THEN 0
    ELSE IF ContainsPhrase(lower, <<"t","r","i","p","l","e"," ","p","l","a","y">>) THEN 3
    ELSE IF ContainsPhrase(lower, <<"d","o","u","b","l","e"," ","p","l","a","y">>) THEN 2
    ELSE OutsOfMentions(lower, CountPhrase(lower, <<"o","u","t"," ","a","t">>) + CountPhrase(lower, <<"o","u","t"," ","o","n"," ","t","h","e"," ","p","l","a","y">>))

estimateOutsRecordedOnPlay(text) == OutsOfLower(toLowerCase(cleanText(text)))

\* the values are integers, so Math.floor is the identity
clampOuts(value) == Max(0, Min(3, value))

isSameHalfInning(a, b) ==
    a.inning # NullNum /\ b.inning # NullNum /\ a.inning = b.inning /\ a.half # NoHalf /\ a.half = b.half

inferBattingSide(play) ==
    IF play.half = "top" THEN "away" ELSE IF play.half = "bottom" THEN "home" ELSE "none"

\* a LivePlayEvent as parsePlayRow and extractLivePlayEvents build it
LivePlay(inning, half, text, scoringDecision, outs) ==
    [inning |-> inning, half |-> half, isSubstitution |-> isSubstitutionText(text),
     text |-> text, scoringDecision |-> scoringDecision, outs |-> outs]

LivePlayPool ==
    { LivePlay(1, "top", <<"A","l"," ","s","i","n","g","l","e","d"," ","t","o"," ","l","e","f","t"," ","f","i","e","l","d",","," ","R","B","I",";"," ","C","y"," ","s","c","o","r","e","d",".">>, <<"1","B"," ","7"," ","R","B","I">>, 0),
      LivePlay(1, "top", <<"A","l"," ","s","t","r","u","c","k"," ","o","u","t"," ","s","w","i","n","g","i","n","g",".">>, <<>>, 1),
      LivePlay(1, "top", <<"B","o"," ","t","o"," ","p"," ","f","o","r"," ","D","i",".">>, <<>>, 1),
      LivePlay(1, "top", <<"B","o"," ","t","o"," ","p"," ","f","o","r"," ","D","i",".">>, <<>>, NullNum),
      LivePlay(1, "top", <<"E","d"," ","p","i","n","c","h"," ","h","i","t"," ","f","o","r"," ","A","l",";"," ","E","d"," ","s","t","r","u","c","k"," ","o","u","t",".">>, <<>>, 1),
      LivePlay(1, "bottom", <<"F","y"," ","p","i","n","c","h"," ","r","a","n"," ","f","o","r"," ","G","u","s",","," ","2"," ","R","B","I",".">>, <<"2"," ","R","B","I">>, 0),
      LivePlay(1, "bottom", <<"G","u","s"," ","h","o","m","e","r","e","d"," ","t","o"," ","r","i","g","h","t"," ","f","i","e","l","d",".">>, <<>>, 0),
      LivePlay(NullNum, NoHalf, <<"H","a","l"," ","g","r","o","u","n","d","e","d"," ","i","n","t","o"," ","d","o","u","b","l","e"," ","p","l","a","y",".">>, <<>>, 1),
      LivePlay(3, NoHalf, <<"I","r","a"," ","w","a","l","k","e","d",".">>, <<>>, 0),
      LivePlay(1, "bottom", <<"J","o"," ","f","l","i","e","d"," ","o","u","t"," ","t","o"," ","l","f",".">>, <<>>, NullNum) }

\* the two estimates, evaluated once per pool play
RunsEstimated == [play \in LivePlayPool |-> estimateRunsScoredOnPlay(play)]
OutsEstimated == [play \in LivePlayPool |-> estimateOutsRecordedOnPlay(play.text)]

\* mutant: the runs of the play are added to the running score
UndoRuns_AddsRuns(score, runsScored, battingSide, side) ==
    IF runsScored > 0 /\ battingSide = side /\ score # NullNum
    THEN score + runsScored
    ELSE score

\* mutant: the running score is not floored at 0
UndoRuns_NoFloor(score, runsScored, battingSide, side) ==
    IF runsScored > 0 /\ battingSide = side /\ score # NullNum
    THEN score - runsScored
    ELSE score

\* lines 145-149 for the running score of one side
UndoRuns(score, runsScored, battingSide, side) ==
    IF runsScored > 0 /\ battingSide = side /\ score # NullNum
    THEN Max(0, score - runsScored)
    ELSE score

\* lines 133-150: the running score of a side when the backward walk reaches index
RECURSIVE ScoreAt(_, _, _, _)
ScoreAt(playList, score, side, index) ==
    IF index >= Len(playList) THEN score
    ELSE UndoRuns(ScoreAt(playList, score, side, index + 1),
                  RunsEstimated[playList[index + 1]],
                  inferBattingSide(playList[index + 1]), side)

\* mutant: a play without an outs count gets the estimate of its text
OutsAfterPlayAt_GuessesFromText(playList, index) ==
    IF index < Len(playList) /\ isSameHalfInning(playList[index], playList[index + 1])
          /\ playList[index + 1].outs # NullNum
    THEN clampOuts(playList[index + 1].outs)
    ELSE IF index < Len(playList) /\ ~isSameHalfInning(playList[index], playList[index + 1])
    THEN 3
    ELSE clampOuts(OrZero(playList[index].outs) + OutsEstimated[playList[index]])

\* lines 152-175: one iteration of the forward loop
OutsAfterPlayAt(playList, index) ==
    IF index < Len(playList) /\ isSameHalfInning(playList[index], playList[index + 1])
          /\ playList[index + 1].outs # NullNum
    THEN clampOuts(playList[index + 1].outs)
    ELSE IF index < Len(playList) /\ ~isSameHalfInning(playList[index], playList[index + 1])
    THEN 3
    ELSE IF playList[index].outs # NullNum
    THEN clampOuts(playList[index].outs + OutsEstimated[playList[index]])
    ELSE NullNum

\* the seed entries of lines 122-128 are all overwritten by the two loops
deriveLivePlayStates(playList, liveSummary) ==
    [index \in 1..Len(playList) |->
        [awayScore |-> ScoreAt(playList, liveSummary.visitorScore, "away", index),
         homeScore |-> ScoreAt(playList, liveSummary.homeScore, "home", index),
         outsAfterPlay |-> OutsAfterPlayAt(playList, index)]]

\* [visitorScore, homeScore] of the live summary; null is NullNum
SummaryPool ==
    { [visitorScore |-> 2, homeScore |-> 1],
      [visitorScore |-> 0, homeScore |-> 3],
      [visitorScore |-> NullNum, homeScore |-> NullNum] }

StoreStates(states) ==
    /\ playStates' = states
    /\ dpc' = "done"
    /\ UNCHANGED <<derivePlays, deriveSummary, deriveFrame>>

DeriveLivePlayStates ==
    /\ dpc = "call"
    /\ StoreStates(deriveLivePlayStates(derivePlays, deriveSummary))

InitDerive ==
    /\ \E n \in 0..MaxDerivePlays : \E playList \in [1..n -> LivePlayPool] : derivePlays = playList
    /\ deriveSummary \in SummaryPool
    /\ playStates = <<>>
    /\ dpc = "call"
    /\ DeriveAlone

NextDerive == DeriveLivePlayStates

SpecDerive == InitDerive /\ [][NextDerive]_vars

----------------------------------------------------------------------------
(* Tweet Formatter: name display (live-play-feed.ts 626-766, 785-803)      *)

NL == <<"\n">>

\* capitalize (lines 785-787)
capitalize(value) ==
    IF value = <<>> THEN value ELSE <<UpperChar(value[1])>> \o toLowerCase(Tail(value))

ordinalSuffix(value) ==
    IF value % 10 = 1 /\ value % 100 # 11 THEN <<"s","t">>
    ELSE IF value % 10 = 2 /\ value % 100 # 12 THEN <<"n","d">>
    ELSE IF value % 10 = 3 /\ value % 100 # 13 THEN <<"r","d">>
    ELSE <<"t","h">>

ordinal(value) == Str(value) \o ordinalSuffix(value)

\* [-'] and the grave accent, which is not in the alphabet used here
IsSegmentSeparator(c) == c = "-" \/ c = "'"

RECURSIVE SegmentEnd(_, _)
SegmentEnd(token, i) ==
    IF i + 1 <= Len(token) /\ ~IsSegmentSeparator(token[i + 1]) THEN SegmentEnd(token, i + 1) ELSE i

\* lines 755-760 on the lower-cased segment
FormatLowerSegment(lower) ==
    IF StartsWith(lower, <<"m","c">>) /\ Len(lower) > 2
    THEN <<"M","c">> \o capitalize(SubSeq(lower, 3, Len(lower)))
    ELSE capitalize(lower)

\* token.split(...).map(...).join(""), lines 749-762
RECURSIVE FormatSegments(_)
FormatSegments(token) ==
    IF token = <<>> THEN <<>>
    ELSE IF IsSegmentSeparator(token[1]) THEN <<token[1]>> \o FormatSegments(Tail(token))
    ELSE FormatLowerSegment(toLowerCase(SubSeq(token, 1, SegmentEnd(token, 1))))
            \o FormatSegments(SubSeq(token, SegmentEnd(token, 1) + 1, Len(token)))

NameSuffixes == {<<"j","r">>, <<"s","r">>, <<"i","i">>, <<"i","i","i">>, <<"i","v">>, <<"v">>}

formatNameToken(token) ==
    IF Len(token) = 2 /\ IsLetter(token[1]) /\ token[2] = "." THEN toUpperCase(token)
    ELSE IF toLowerCase(token) \in NameSuffixes THEN toUpperCase(token)
    ELSE FormatSegments(token)

\* tokens.map(formatNameToken).join(" ")
RECURSIVE JoinFormatted(_)
JoinFormatted(tokens) ==
    IF tokens = <<>> THEN <<>>
    ELSE IF Len(tokens) = 1 THEN formatNameToken(tokens[1])
    ELSE formatNameToken(tokens[1]) \o <<" ">> \o JoinFormatted(Tail(tokens))

toTitleCasePersonName(value) == trim(JoinFormatted(SplitSpaces(cleanText(value))))

\* [A-Za-z'.-]
IsNameChar(c) == IsLetter(c) \/ c = "'" \/ c = "." \/ c = "-"

\* the last index of the run of name characters that starts at i (i - 1 when empty)
RECURSIVE NameRunEnd(_, _)
NameRunEnd(s, i) == IF i <= Len(s) /\ IsNameChar(s[i]) THEN NameRunEnd(s, i + 1) ELSE i - 1

\* the greatest e in (j+1)..last with a word boundary after it, 0 when there is none
RECURSIVE LastBoundaryIn(_, _, _)
LastBoundaryIn(s, j, last) ==
    IF last <= j THEN 0
    ELSE IF WordBoundaryAt(s, last + 1) THEN last
    ELSE LastBoundaryIn(s, j, last - 1)

\* [A-Za-z][A-Za-z'.-]+\b at j: the index of its last character, 0 for no match
NameEndAt(s, j) ==
    IF j <= Len(s) /\ IsLetter(s[j]) THEN LastBoundaryIn(s, j, NameRunEnd(s, j + 1)) ELSE 0

\* \b([A-Za-z][A-Za-z'.-]+), at i: the index of the comma, 0 for no match
CommaAt(s, i) ==
    IF /\ WordBoundaryAt(s, i)
       /\ IsLetter(s[i])
       /\ NameRunEnd(s, i + 1) > i
       /\ NameRunEnd(s, i + 1) < Len(s)
       /\ s[NameRunEnd(s, i + 1) + 1] = ","
    THEN NameRunEnd(s, i + 1) + 1
    ELSE 0

\* the first pattern of normalizeNamesInText at i: the index of its last character
CommaNameEndAt(s, i) ==
    IF CommaAt(s, i) > 0 THEN NameEndAt(s, SkipSpaces(s, CommaAt(s, i) + 1)) ELSE 0

SwappedName(s, i, comma, first, last) ==
    toTitleCasePersonName(SubSeq(s, first, last)) \o <<" ">>
        \o toTitleCasePersonName(SubSeq(s, i, comma - 1))

\* lines 627-630: "Last,First" becomes "First Last"
RECURSIVE ReplaceCommaNames(_, _)
ReplaceCommaNames(s, i) ==
    IF i > Len(s) THEN <<>>
    ELSE IF CommaNameEndAt(s, i) > 0
    THEN SwappedName(s, i, CommaAt(s, i), SkipSpaces(s, CommaAt(s, i) + 1), CommaNameEndAt(s, i))
            \o ReplaceCommaNames(s, CommaNameEndAt(s, i) + 1)
    ELSE <<s[i]>> \o ReplaceCommaNames(s, i + 1)

\* the second pattern at i: \b([A-Za-z]\.)\s+([A-Za-z][A-Za-z'.-]+)\b
InitialNameEndAt(s, i) ==
    IF /\ WordBoundaryAt(s, i)
       /\ IsLetter(s[i])
       /\ i + 2 <= Len(s)
       /\ s[i + 1] = "."
       /\ IsSpace(s[i + 2])
    THEN NameEndAt(s, SkipSpaces(s, i + 2))
    ELSE 0

\* lines 631-634: "a. smith" becomes "A. Smith"
RECURSIVE ReplaceInitialNames(_, _)
ReplaceInitialNames(s, i) ==
    IF i > Len(s) THEN <<>>
    ELSE IF InitialNameEndAt(s, i) > 0
    THEN <<UpperChar(s[i]), ".", " ">>
            \o toTitleCasePersonName(SubSeq(s, SkipSpaces(s, i + 2), InitialNameEndAt(s, i)))
            \o ReplaceInitialNames(s, InitialNameEndAt(s, i) + 1)
    ELSE <<s[i]>> \o ReplaceInitialNames(s, i + 1)

NAME_UPPERCASE_EXCLUSIONS ==
    {<<"R","B","I">>, <<"R","I","S","P">>, <<"O","P","S">>, <<"E","R","A">>, <<"W","H","I","P">>, <<"B","A","B","I","P">>, <<"H","B","P">>, <<"L","O","B">>, <<"A","B">>, <<"B","B">>,
     <<"S","O">>, <<"I","P">>, <<"H","R">>, <<"S","B">>, <<"C","S">>, <<"D","P">>, <<"T","P">>, <<"K">>, <<"K","K","F","K">>}

NameActionHints ==
    {<<"s","t","r","u","c","k">>, <<"g","r","o","u","n","d","e","d">>, <<"f","l","i","e","d">>, <<"l","i","n","e","d">>, <<"p","o","p","p","e","d">>, <<"f","o","u","l","e","d">>, <<"w","a","l","k","e","d">>, <<"s","i","n","g","l","e","d">>,
     <<"d","o","u","b","l","e","d">>, <<"t","r","i","p","l","e","d">>, <<"h","o","m","e","r","e","d">>, <<"r","e","a","c","h","e","d">>, <<"a","d","v","a","n","c","e","d">>, <<"s","t","o","l","e">>, <<"t","o">>, <<"p","i","n","c","h">>, <<"o","u","t">>}

\* NAME_ACTION_HINT_PATTERN.test(after)
HasActionHint(after) ==
    \E hint \in NameActionHints :
        StartsWith(toLowerCase(after), hint) /\ WordBoundaryAt(after, Len(hint) + 1)

\* [A-Z'.-]
IsUpperNameChar(c) == IsUpper(c) \/ c = "'" \/ c = "." \/ c = "-"

RECURSIVE UpperRunEnd(_, _)
UpperRunEnd(s, i) == IF i <= Len(s) /\ IsUpperNameChar(s[i]) THEN UpperRunEnd(s, i + 1) ELSE i - 1

\* \b([A-Z][A-Z'.-]{3,})\b at i: the index of its last character, 0 for no match
UpperWordEndAt(s, i) ==
    IF WordBoundaryAt(s, i) /\ IsUpper(s[i])
    THEN LastBoundaryIn(s, i + 2, UpperRunEnd(s, i + 1))
    ELSE 0

\* before.match(/([A-Za-z.]+)\s*$/)?.[1]: the start of the token that ends at last
RECURSIVE TokenStart(_, _)
TokenStart(s, last) ==
    IF last >= 1 /\ (IsLetter(s[last]) \/ s[last] = ".") THEN TokenStart(s, last - 1) ELSE last + 1

PreviousToken(before) ==
    toLowerCase(SubSeq(trimEnd(before), TokenStart(trimEnd(before), Len(trimEnd(before))),
                       Len(trimEnd(before))))

\* lines 697-713: the callback of normalizeUppercaseSurnameContext
SurnameInContext(word, previousToken, after) ==
    IF word \in NAME_UPPERCASE_EXCLUSIONS THEN word
    ELSE IF previousToken \in {<<"f","o","r">>, <<"t","o">>, <<"b","y">>} THEN toTitleCasePersonName(word)
    ELSE IF HasActionHint(after) THEN toTitleCasePersonName(word)
    ELSE word

RECURSIVE ReplaceUppercaseSurnames(_, _)
ReplaceUppercaseSurnames(s, i) ==
    IF i > Len(s) THEN <<>>
    ELSE IF UpperWordEndAt(s, i) > 0
    THEN SurnameInContext(SubSeq(s, i, UpperWordEndAt(s, i)),
                          PreviousToken(SubSeq(s, 1, i - 1)),
                          trimStart(SubSeq(s, UpperWordEndAt(s, i) + 1, Len(s))))
            \o ReplaceUppercaseSurnames(s, UpperWordEndAt(s, i) + 1)
    ELSE <<s[i]>> \o ReplaceUppercaseSurnames(s, i + 1)

normalizeUppercaseSurnameContext(text) == ReplaceUppercaseSurnames(text, 1)

\* ^([A-Za-z][A-Za-z'.-]+),\s*([A-Za-z][A-Za-z'.-]+)$ on the cleaned text
IsCommaName(text) ==
    /\ text # <<>>
    /\ IsLetter(text[1])
    /\ NameRunEnd(text, 2) >= 2
    /\ NameRunEnd(text, 2) < Len(text)
    /\ text[NameRunEnd(text, 2) + 1] = ","
    /\ SkipSpaces(text, NameRunEnd(text, 2) + 2) < Len(text)
    /\ IsLetter(text[SkipSpaces(text, NameRunEnd(text, 2) + 2)])
    /\ NameRunEnd(text, SkipSpaces(text, NameRunEnd(text, 2) + 2) + 1) = Len(text)

DisplayNameOf(text) ==
    IF IsCommaName(text)
    THEN toTitleCasePersonName(SubSeq(text, SkipSpaces(text, NameRunEnd(text, 2) + 2), Len(text)))
            \o <<" ">> \o toTitleCasePersonName(SubSeq(text, 1, NameRunEnd(text, 2)))
    ELSE toTitleCasePersonName(text)

normalizeDisplayName(value) == DisplayNameOf(cleanText(value))

\* replacements.set(key, value): a new key goes last, a known key keeps its place
MapSet(entries, key, value) ==
    IF \E k \in 1..Len(entries) : entries[k][1] = key
    THEN [k \in 1..Len(entries) |-> IF entries[k][1] = key THEN <<key, value>> ELSE entries[k]]
    ELSE Append(entries, <<key, value>>)

\* lines 648-652
SetVariants(entries, raw, normalized) ==
    MapSet(MapSet(MapSet(MapSet(MapSet(entries,
        raw, normalized),
        toUpperCase(raw), normalized),
        toLowerCase(raw), normalized),
        normalized, normalized),
        toUpperCase(normalized), normalized)

AddNormalized(entries, raw, normalized) ==
    IF normalized = <<>> THEN entries ELSE SetVariants(entries, raw, normalized)

AddName(entries, raw) ==
    IF raw = <<>> THEN entries ELSE AddNormalized(entries, raw, normalizeDisplayName(raw))

\* lines 636-653: the replacements map as its entries in insertion order
RECURSIVE Replacements(_, _)
Replacements(entries, explicitNames) ==
    IF explicitNames = <<>> THEN entries
    ELSE Replacements(AddName(entries, cleanText(explicitNames[1])), Tail(explicitNames))

RECURSIVE InsertByLength(_, _)
InsertByLength(sorted, entry) ==
    IF sorted = <<>> THEN <<entry>>
    ELSE IF Len(sorted[1][1]) >= Len(entry[1]) THEN <<sorted[1]>> \o InsertByLength(Tail(sorted), entry)
    ELSE <<entry>> \o sorted

\* .sort((a, b) => b[0].length - a[0].length), a stable sort
RECURSIVE SortByLength(_, _)
SortByLength(sorted, entries) ==
    IF entries = <<>> THEN sorted
    ELSE SortByLength(InsertByLength(sorted, entries[1]), Tail(entries))

IsAlnum(c) == IsLetter(c) \/ IsDigit(c)

\* the variant with its white space turned into \s+, at q: the index of its last character
RECURSIVE PatternEndAt(_, _, _)
PatternEndAt(s, q, words) ==
    IF ~MatchesAt(s, q, words[1]) THEN 0
    ELSE IF Len(words) = 1 THEN q + Len(words[1]) - 1
    ELSE IF q + Len(words[1]) <= Len(s) /\ IsSpace(s[q + Len(words[1])])
    THEN PatternEndAt(s, SkipSpaces(s, q + Len(words[1])), Tail(words))
    ELSE 0

\* (pattern)(?=[^A-Za-z0-9]|$) at q
LookaheadHolds(s, end) == end > 0 /\ (end = Len(s) \/ ~IsAlnum(s[end + 1]))
VariantEndAt(s, q, words) ==
    IF LookaheadHolds(s, PatternEndAt(s, q, words)) THEN PatternEndAt(s, q, words) ELSE 0

\* text.replace(regex, `$1${normalized}`) from position i on
RECURSIVE ReplaceVariantFrom(_, _, _, _)
ReplaceVariantFrom(s, i, words, normalized) ==
    IF i > Len(s) THEN <<>>
    ELSE IF i = 1 /\ VariantEndAt(s, 1, words) > 0
    THEN normalized \o ReplaceVariantFrom(s, VariantEndAt(s, 1, words) + 1, words, normalized)
    ELSE IF ~IsAlnum(s[i]) /\ VariantEndAt(s, i + 1, words) > 0
    THEN <<s[i]>> \o normalized
            \o ReplaceVariantFrom(s, VariantEndAt(s, i + 1, words) + 1, words, normalized)
    ELSE <<s[i]>> \o ReplaceVariantFrom(s, i + 1, words, normalized)

replaceNameVariant(text, variant, normalized) ==
    ReplaceVariantFrom(text, 1, SplitSpaces(variant), normalized)

\* lines 655-661
RECURSIVE ApplyVariants(_, _)
ApplyVariants(text, variants) ==
    IF variants = <<>> THEN text
    ELSE IF variants[1][1] = <<>> \/ variants[1][1] = variants[1][2]
    THEN ApplyVariants(text, Tail(variants))
    ELSE ApplyVariants(replaceNameVariant(text, variants[1][1], variants[1][2]), Tail(variants))

normalizeNamesInText(value, explicitNames) ==
    ApplyVariants(
        normalizeUppercaseSurnameContext(ReplaceInitialNames(ReplaceCommaNames(value, 1), 1)),
        SortByLength(<<>>, Replacements(<<>>, explicitNames)))

----------------------------------------------------------------------------
(* Tweet Formatter: buildPlayTweetText and buildFinalTweetText             *)
(* (live-play-feed.ts 181-249, 574-624, 768-783). Numbers are finite       *)
(* integers; a null or absent number is NullNum and a null string is the   *)
(* empty string, which every ?? and truthiness test of the code treats     *)
(* alike. A null stateAfterPlay, situation or pitcherDecisions is the      *)
(* object with every field null.                                           *)

formatScore(value) == IF value = NullNum THEN <<"?">> ELSE Str(value)

formatOutsLabel(value) ==
    IF value = NullNum THEN <<"O","u","t","s"," ","?">>
    ELSE Str(value) \o <<" ">> \o (IF value = 1 THEN <<"O","u","t">> ELSE <<"O","u","t","s">>)

\* /^(Mid|End)\b/
IsMidOrEnd(inningLabel) ==
    (StartsWith(inningLabel, <<"M","i","d">>) \/ StartsWith(inningLabel, <<"E","n","d">>))
        /\ WordBoundaryAt(inningLabel, 4)

formatHeaderLine(inningLabel, outs) ==
    IF IsMidOrEnd(inningLabel) THEN inningLabel
    ELSE inningLabel \o <<" ","|"," ">> \o formatOutsLabel(outs)

HalfText(half) == IF half = "top" THEN <<"t","o","p">> ELSE <<"b","o","t","t","o","m">>
StatusOrLive(status) == IF status # <<>> THEN status ELSE <<"L","i","v","e">>

\* mutant: a substitution with three outs is labelled like a real play
buildInningLabel_IgnoresSubstitution(play, outsAfterPlay, liveSummary) ==
    IF play.inning # NullNum /\ play.half # NoHalf /\ outsAfterPlay = 3
    THEN (IF play.half = "top" THEN <<"M","i","d">> ELSE <<"E","n","d">>) \o <<" ">> \o ordinal(play.inning)
    ELSE IF play.inning # NullNum /\ play.half # NoHalf
    THEN capitalize(HalfText(play.half)) \o <<" ">> \o ordinal(play.inning)
    ELSE IF play.inning # NullNum THEN <<"I","n","n","i","n","g"," ">> \o ordinal(play.inning)
    ELSE StatusOrLive(cleanText(liveSummary.statusText))

buildInningLabel(play, outsAfterPlay, liveSummary) ==
    IF play.inning # NullNum /\ play.half # NoHalf /\ outsAfterPlay = 3 /\ ~play.isSubstitution
    THEN (IF play.half = "top" THEN <<"M","i","d">> ELSE <<"E","n","d">>) \o <<" ">> \o ordinal(play.inning)
    ELSE IF play.inning # NullNum /\ play.half # NoHalf
    THEN capitalize(HalfText(play.half)) \o <<" ">> \o ordinal(play.inning)
    ELSE IF play.inning # NullNum THEN <<"I","n","n","i","n","g"," ">> \o ordinal(play.inning)
    ELSE StatusOrLive(cleanText(liveSummary.statusText))

\* mutant: the ellipsis is added after maxLength characters
trimToTweetLength_EllipsisOutside(text, maxLength) ==
    IF Len(text) <= maxLength THEN text
    ELSE trimEnd(SubSeq(text, 1, maxLength)) \o <<".",".",".">>

trimToTweetLength(text, maxLength) ==
    IF Len(text) <= maxLength THEN text
    ELSE trimEnd(SubSeq(text, 1, Max(0, maxLength - 3))) \o <<".",".",".">>

clampTweetLength(input) == Max(20, Min(280, input))

\* a ?? b on numbers and on strings
NumberOr(a, b) == IF a # NullNum THEN a ELSE b
StringOr(a, b) == IF a # <<>> THEN a ELSE b

\* blocks.filter((block) => block.length > 0).join(separator)
RECURSIVE JoinWith(_, _)
JoinWith(blocks, separator) ==
    IF blocks = <<>> THEN <<>>
    ELSE IF Len(blocks) = 1 THEN blocks[1]
    ELSE blocks[1] \o separator \o JoinWith(Tail(blocks), separator)

NonEmpty(blocks) == SelectSeq(blocks, LAMBDA block : block # <<>>)

\* lines 183-187
OutsOfInput(input) ==
    NumberOr(input.stateAfterPlay.outsAfterPlay,
        NumberOr(input.play.outs, input.liveSummary.situation.outs))

ScoreBlock(liveSummary, awayScore, homeScore) ==
    cleanText(liveSummary.visitorTeam) \o <<" ","-"," ">> \o formatScore(awayScore) \o NL
        \o cleanText(liveSummary.homeTeam) \o <<" ","-"," ">> \o formatScore(homeScore)

\* lines 201-203
PitchingBlock(pitcherName, pitchCount) ==
    IF pitcherName # <<>> /\ pitchCount # NullNum
    THEN <<<<"P","i","t","c","h","i","n","g"," ","|"," ">> \o pitcherName \o <<" ","-"," ","P"," ">> \o Str(pitchCount)>>
    ELSE <<>>

\* lines 205-207 and 238-240
TagBlock(appendTag) == IF appendTag # <<>> THEN <<trim(appendTag)>> ELSE <<>>

\* lines 194-207: const blocks
PlayBlocks(input, outs) ==
    <<formatHeaderLine(buildInningLabel(input.play, outs, input.liveSummary), outs),
      ScoreBlock(input.liveSummary,
                 NumberOr(input.stateAfterPlay.awayScore, input.liveSummary.visitorScore),
                 NumberOr(input.stateAfterPlay.homeScore, input.liveSummary.homeScore)),
      normalizeNamesInText(cleanText(input.play.text), <<input.play.batter, input.play.pitcher>>)>>
        \o PitchingBlock(
              normalizeDisplayName(cleanText(
                  StringOr(input.play.pitcher, input.liveSummary.situation.pitcherName))),
              input.liveSummary.situation.pitchCount)
        \o TagBlock(input.appendTag)

\* the text handed to trimToTweetLength at line 209
PlayTweetBody(input) == JoinWith(NonEmpty(PlayBlocks(input, OutsOfInput(input))), NL \o NL)

MaxLengthOf(input) == clampTweetLength(NumberOr(input.maxLength, 280))

buildPlayTweetText(input) == trimToTweetLength(PlayTweetBody(input), MaxLengthOf(input))

toOptionalFinalPitcherName(value) == normalizeDisplayName(cleanText(value))

DecisionLine(prefix, name) == IF name # <<>> THEN <<prefix \o name>> ELSE <<>>

\* lines 228-236: the empty line and the decision lines, when there is a decision
DecisionLines(lines) == IF lines # <<>> THEN <<<<>>>> \o lines ELSE <<>>

\* lines 222-240: const lines
FinalLines(input) ==
    <<<<"F","i","n","a","l">>,
      cleanText(input.liveSummary.visitorTeam) \o <<" ","-"," ">> \o formatScore(input.liveSummary.visitorScore),
      cleanText(input.liveSummary.homeTeam) \o <<" ","-"," ">> \o formatScore(input.liveSummary.homeScore)>>
        \o DecisionLines(
              DecisionLine(<<"W"," ","-"," ">>, toOptionalFinalPitcherName(input.pitcherDecisions.winning))
                \o DecisionLine(<<"S"," ","-"," ">>, toOptionalFinalPitcherName(input.pitcherDecisions.save))
                \o DecisionLine(<<"L"," ","-"," ">>, toOptionalFinalPitcherName(input.pitcherDecisions.losing)))
        \o TagBlock(input.appendTag)

\* the text handed to trimToTweetLength at line 242
FinalTweetBody(input) == JoinWith(FinalLines(input), NL)

buildFinalTweetText(input) == trimToTweetLength(FinalTweetBody(input), MaxLengthOf(input))

TweetPlay(inning, half, text, batter, pitcher, outs) ==
    [inning |-> inning, half |-> half, isSubstitution |-> isSubstitutionText(text),
     text |-> text, batter |-> batter, pitcher |-> pitcher, outs |-> outs]

TweetPlayPool ==
    { TweetPlay(1, "top", <<"D","o","e",",","J","o","h","n"," ","s","t","r","u","c","k"," ","o","u","t"," ","l","o","o","k","i","n","g"," ","(","0","-","2"," ","K","K","F","K",")",".">>, <<"D","o","e",",","J","o","h","n">>, <<"M","A","R","S","H">>, 2),
      TweetPlay(9, "bottom", <<"M","A","R","S","H"," ","t","o"," ","p"," ","f","o","r"," ","a","."," ","m","c","n","e","i","l","-","j","o","n","e","s",".">>, <<>>, <<>>, 3),
      TweetPlay(3, "top", <<"A","."," ","S","M","I","T","H"," ","h","o","m","e","r","e","d"," ","t","o"," ","r","i","g","h","t"," ","f","i","e","l","d",","," ","2"," ","R","B","I",".">>, <<"A","."," ","S","M","I","T","H">>, <<>>, NullNum),
      TweetPlay(12, "bottom", <<"d","o","e"," ","s","i","n","g","l","e","d"," ","u","p"," ","t","h","e"," ","m","i","d","d","l","e",".">>, <<"D","o","e",",","J","o","h","n">>, <<"M","a","r","s","h">>, 0),
      TweetPlay(11, NoHalf, <<"A","l"," ","w","a","l","k","e","d",".">>, <<>>, <<>>, 1),
      TweetPlay(NullNum, NoHalf, <<"A","l"," "," ","w","a","l","k","e","d",".">>, <<"A","l">>, <<"P","r","i","c","e"," ","j","r">>, NullNum) }

NoPlay == TweetPlay(NullNum, NoHalf, <<>>, <<>>, <<>>, NullNum)

StatePool ==
    { [awayScore |-> NullNum, homeScore |-> NullNum, outsAfterPlay |-> NullNum],
      [awayScore |-> 1, homeScore |-> 0, outsAfterPlay |-> 3],
      [awayScore |-> 7, homeScore |-> 10, outsAfterPlay |-> 1],
      [awayScore |-> 0, homeScore |-> 0, outsAfterPlay |-> 0] }

NoState == [awayScore |-> NullNum, homeScore |-> NullNum, outsAfterPlay |-> NullNum]

LiveSummaryPool ==
    { [visitorTeam |-> <<"K","e","n","t"," "," ","S","t","a","t","e">>, homeTeam |-> <<"#","1"," ","L","S","U">>, visitorScore |-> 7, homeScore |-> 10,
       statusText |-> <<"E","n","d"," ","5","t","h">>,
       situation |-> [outs |-> NullNum, pitcherName |-> <<>>, pitchCount |-> NullNum]],
      [visitorTeam |-> <<"U","S","M">>, homeTeam |-> <<"U","L","M">>, visitorScore |-> 4, homeScore |-> 6,
       statusText |-> <<"B","o","t","t","o","m"," ","7","t","h">>,
       situation |-> [outs |-> 3, pitcherName |-> <<"P","r","i","c","e",","," ","M","a","x">>, pitchCount |-> 32]],
      [visitorTeam |-> <<"U","S","M">>, homeTeam |-> <<"U","L","M">>, visitorScore |-> NullNum, homeScore |-> NullNum,
       statusText |-> <<>>,
       situation |-> [outs |-> 2, pitcherName |-> <<"P","r","i","c","e",","," ","M","a","x">>, pitchCount |-> NullNum]] }

DecisionsPool ==
    { [winning |-> <<>>, save |-> <<>>, losing |-> <<>>],
      [winning |-> <<"D","o","e",",","J","o","h","n">>, save |-> <<>>, losing |-> <<"M","A","R","S","H">>],
      [winning |-> <<"a","."," ","m","c","n","e","i","l","-","j","o","n","e","s">>, save |-> <<"P","r","i","c","e"," ","j","r">>, losing |-> <<"O","'","N","E","I","L",","," ","P","a","t">>] }

NoDecisions == [winning |-> <<>>, save |-> <<>>, losing |-> <<>>]

RECURSIVE Repeat(_, _)
Repeat(unit, n) == IF n = 0 THEN <<>> ELSE unit \o Repeat(unit, n - 1)

\* a tag that alone is longer than any tweet may be
LongTag == Repeat(<<"#","g","o">>, LongTagUnits)

TagPool == { <<>>, <<" ","#","U","S","M"," ">>, <<" ">>, LongTag }

\* NullNum: the caller passes no maxLength
MaxLengthPool == { NullNum, 10, 20, 45, 300 }

TweetInput(kind, play, liveSummary, stateAfterPlay, pitcherDecisions, maxLength, appendTag) ==
    [kind |-> kind, play |-> play, liveSummary |-> liveSummary, stateAfterPlay |-> stateAfterPlay,
     pitcherDecisions |-> pitcherDecisions, maxLength |-> maxLength, appendTag |-> appendTag]

StoreTweet(text) ==
    /\ tweetText' = text
    /\ tpc' = "done"
    /\ UNCHANGED <<tweetInput, tweetFrame>>

BuildPlayTweetText ==
    /\ tpc = "call"
    /\ tweetInput.kind = "play"
    /\ StoreTweet(buildPlayTweetText(tweetInput))

BuildFinalTweetText ==
    /\ tpc = "call"
    /\ tweetInput.kind = "final"
    /\ StoreTweet(buildFinalTweetText(tweetInput))

InitTweet ==
    /\ \E liveSummary \in LiveSummaryPool : \E maxLength \in MaxLengthPool : \E appendTag \in TagPool :
          \/ \E play \in TweetPlayPool : \E stateAfterPlay \in StatePool :
                tweetInput = TweetInput("play", play, liveSummary, stateAfterPlay, NoDecisions,
                                        maxLength, appendTag)
          \/ \E pitcherDecisions \in DecisionsPool :
                tweetInput = TweetInput("final", NoPlay, liveSummary, NoState, pitcherDecisions,
                                        maxLength, appendTag)
    /\ tweetText = <<>>
    /\ tpc = "call"
    /\ TweetAlone

NextTweet == BuildPlayTweetText \/ BuildFinalTweetText

SpecTweet == InitTweet /\ [][NextTweet]_vars

----------------------------------------------------------------------------
(* Play description parser: parsePlayDescription (text.ts 1256-1315)       *)

\* \s+p matched at position j of s
SpacesThenAt(s, j, p) ==
    \E k \in (j + 1)..Len(s) : (\A m \in j..(k - 1) : IsSpace(s[m])) /\ MatchesAt(s, k, p)

\* /\bp(?!\s+play)\b/.test(s)
ContainsPhraseNotPlay(s, p) ==
    \E i \in 1..Len(s) :
        /\ MatchesAt(s, i, p)
        /\ WordBoundaryAt(s, i)
        /\ ~SpacesThenAt(s, i + Len(p), <<"p","l","a","y">>)
        /\ WordBoundaryAt(s, i + Len(p))

\* one entry of orderedMatchers: the alternatives of its pattern, those that
\* carry the lookahead (?!\s+play) apart
Matcher(outcome, plain, notPlay, tag) ==
    [outcome |-> outcome, plain |-> plain, notPlay |-> notPlay, tag |-> tag]

orderedMatchers_WalkBeforeIntentional ==
    << Matcher("home_run", {<<"h","o","m","e","r","e","d">>, <<"h","o","m","e"," ","r","u","n">>}, {}, "home_run"),
       Matcher("triple", {<<"t","r","i","p","l","e","d">>}, {<<"t","r","i","p","l","e">>}, "triple"),
       Matcher("double", {<<"d","o","u","b","l","e","d">>}, {<<"d","o","u","b","l","e">>}, "double"),
       Matcher("single", {<<"s","i","n","g","l","e","d">>, <<"s","i","n","g","l","e">>}, {}, "single"),
       Matcher("walk", {<<"w","a","l","k","e","d">>, <<"w","a","l","k">>}, {}, "walk"),
       Matcher("intentional_walk", {<<"i","n","t","e","n","t","i","o","n","a","l","l","y"," ","w","a","l","k","e","d">>}, {}, "intentional_walk"),
       Matcher("hit_by_pitch", {<<"h","i","t"," ","b","y"," ","p","i","t","c","h">>, <<"h","b","p">>}, {}, "hit_by_pitch"),
       Matcher("caught_stealing", {<<"c","a","u","g","h","t"," ","s","t","e","a","l","i","n","g">>}, {}, "caught_stealing"),
       Matcher("pickoff", {<<"p","i","c","k","e","d"," ","o","f","f">>, <<"p","i","c","k","o","f","f">>}, {}, "pickoff"),
       Matcher("stolen_base", {<<"s","t","o","l","e">>, <<"s","t","o","l","e","n"," ","b","a","s","e">>}, {}, "stolen_base"),
       Matcher("strikeout", {<<"s","t","r","u","c","k"," ","o","u","t">>, <<"s","t","r","i","k","e","o","u","t">>}, {}, "strikeout"),
       Matcher("ground_out", {<<"g","r","o","u","n","d","e","d"," ","o","u","t">>, <<"g","r","o","u","n","d"," ","o","u","t">>, <<"g","r","o","u","n","d","o","u","t">>}, {}, "ground_out"),
       Matcher("fly_out", {<<"f","l","i","e","d"," ","o","u","t">>, <<"f","l","y"," ","o","u","t">>, <<"p","o","p","p","e","d"," ","o","u","t">>}, {}, "fly_out"),
       Matcher("line_out", {<<"l","i","n","e","d"," ","o","u","t">>, <<"l","i","n","e"," ","o","u","t">>}, {}, "line_out"),
       Matcher("foul_out", {<<"f","o","u","l","e","d"," ","o","u","t">>, <<"f","o","u","l"," ","o","u","t">>}, {}, "foul_out"),
       Matcher("sacrifice", {<<"s","a","c","r","i","f","i","c","e">>, <<"s","a","c"," ","f","l","y">>, <<"s","a","c"," ","b","u","n","t">>}, {}, "sacrifice"),
       Matcher("fielder_choice", {<<"f","i","e","l","d","e","r","'","s"," ","c","h","o","i","c","e">>, <<"f","i","e","l","d","e","r","s"," ","c","h","o","i","c","e">>}, {}, "fielder_choice"),
       Matcher("reached_on_error",
               {<<"r","e","a","c","h","e","d"," ","o","n"," ","a","n"," ","e","r","r","o","r">>, <<"r","e","a","c","h","e","d"," ","o","n"," ","a"," ","t","h","r","o","w","i","n","g"," ","e","r","r","o","r">>, <<"r","e","a","c","h","e","d"," ","o","n"," ","e","r","r","o","r">>}, {}, "error"),
       Matcher("wild_pitch", {<<"w","i","l","d"," ","p","i","t","c","h">>}, {}, "wild_pitch"),
       Matcher("passed_ball", {<<"p","a","s","s","e","d"," ","b","a","l","l">>}, {}, "passed_ball"),
       Matcher("balk", {<<"b","a","l","k">>}, {}, "balk") >>

orderedMatchers ==
    << Matcher("home_run", {<<"h","o","m","e","r","e","d">>, <<"h","o","m","e"," ","r","u","n">>}, {}, "home_run"),
       Matcher("triple", {<<"t","r","i","p","l","e","d">>}, {<<"t","r","i","p","l","e">>}, "triple"),
       Matcher("double", {<<"d","o","u","b","l","e","d">>}, {<<"d","o","u","b","l","e">>}, "double"),
       Matcher("single", {<<"s","i","n","g","l","e","d">>, <<"s","i","n","g","l","e">>}, {}, "single"),
       Matcher("intentional_walk", {<<"i","n","t","e","n","t","i","o","n","a","l","l","y"," ","w","a","l","k","e","d">>}, {}, "intentional_walk"),
       Matcher("walk", {<<"w","a","l","k","e","d">>, <<"w","a","l","k">>}, {}, "walk"),
       Matcher("hit_by_pitch", {<<"h","i","t"," ","b","y"," ","p","i","t","c","h">>, <<"h","b","p">>}, {}, "hit_by_pitch"),
       Matcher("caught_stealing", {<<"c","a","u","g","h","t"," ","s","t","e","a","l","i","n","g">>}, {}, "caught_stealing"),
       Matcher("pickoff", {<<"p","i","c","k","e","d"," ","o","f","f">>, <<"p","i","c","k","o","f","f">>}, {}, "pickoff"),
       Matcher("stolen_base", {<<"s","t","o","l","e">>, <<"s","t","o","l","e","n"," ","b","a","s","e">>}, {}, "stolen_base"),
       Matcher("strikeout", {<<"s","t","r","u","c","k"," ","o","u","t">>, <<"s","t","r","i","k","e","o","u","t">>}, {}, "strikeout"),
       Matcher("ground_out", {<<"g","r","o","u","n","d","e","d"," ","o","u","t">>, <<"g","r","o","u","n","d"," ","o","u","t">>, <<"g","r","o","u","n","d","o","u","t">>}, {}, "ground_out"),
       Matcher("fly_out", {<<"f","l","i","e","d"," ","o","u","t">>, <<"f","l","y"," ","o","u","t">>, <<"p","o","p","p","e","d"," ","o","u","t">>}, {}, "fly_out"),
       Matcher("line_out", {<<"l","i","n","e","d"," ","o","u","t">>, <<"l","i","n","e"," ","o","u","t">>}, {}, "line_out"),
       Matcher("foul_out", {<<"f","o","u","l","e","d"," ","o","u","t">>, <<"f","o","u","l"," ","o","u","t">>}, {}, "foul_out"),
       Matcher("sacrifice", {<<"s","a","c","r","i","f","i","c","e">>, <<"s","a","c"," ","f","l","y">>, <<"s","a","c"," ","b","u","n","t">>}, {}, "sacrifice"),
       Matcher("fielder_choice", {<<"f","i","e","l","d","e","r","'","s"," ","c","h","o","i","c","e">>, <<"f","i","e","l","d","e","r","s"," ","c","h","o","i","c","e">>}, {}, "fielder_choice"),
       Matcher("reached_on_error",
               {<<"r","e","a","c","h","e","d"," ","o","n"," ","a","n"," ","e","r","r","o","r">>, <<"r","e","a","c","h","e","d"," ","o","n"," ","a"," ","t","h","r","o","w","i","n","g"," ","e","r","r","o","r">>, <<"r","e","a","c","h","e","d"," ","o","n"," ","e","r","r","o","r">>}, {}, "error"),
       Matcher("wild_pitch", {<<"w","i","l","d"," ","p","i","t","c","h">>}, {}, "wild_pitch"),
       Matcher("passed_ball", {<<"p","a","s","s","e","d"," ","b","a","l","l">>}, {}, "passed_ball"),
       Matcher("balk", {<<"b","a","l","k">>}, {}, "balk") >>

\* pattern.test(lower) for the pattern of one matcher
MatcherTest(matcher, lower) ==
    \/ \E p \in matcher.plain : ContainsPhrase(lower, p)
    \/ \E p \in matcher.notPlay : ContainsPhraseNotPlay(lower, p)

\* tags.add(value): a Set keeps one copy, in insertion order
addTag(tags, value) ==
    IF \E i \in 1..Len(tags) : tags[i] = value THEN tags ELSE Append(tags, value)

\* the four tags detected before the ordered match
DetectedTags(lower) ==
    (IF ContainsPhrase(lower, <<"d","o","u","b","l","e"," ","p","l","a","y">>) THEN <<"double_play">> ELSE <<>>)
    \o (IF ContainsPhrase(lower, <<"t","r","i","p","l","e"," ","p","l","a","y">>) THEN <<"triple_play">> ELSE <<>>)
    \o (IF ContainsPhrase(lower, <<"s","c","o","r","e","d">>) \/ ContainsPhrase(lower, <<"s","c","o","r","e","s">>)
        THEN <<"run_scored">> ELSE <<>>)
    \o (IF ContainsPhrase(lower, <<"r","b","i">>) THEN <<"rbi">> ELSE <<>>)

\* the loop over orderedMatchers, from entry k on
RECURSIVE MatchFrom(_, _, _)
MatchFrom(lower, tags, k) ==
    IF k > Len(orderedMatchers) THEN [outcome |-> "other", tags |-> tags]
    ELSE IF MatcherTest(orderedMatchers[k], lower)
         THEN [outcome |-> orderedMatchers[k].outcome, tags |-> addTag(tags, orderedMatchers[k].tag)]
         ELSE MatchFrom(lower, tags, k + 1)

DescribeLower(lower) == MatchFrom(lower, DetectedTags(lower), 1)

parsePlayDescription(text) == DescribeLower(toLowerCase(text))

\* the clauses the texts are made of
ClausePool ==
    { <<"A","l"," ","H","O","M","E","R","E","D"," ","t","o"," ","l","e","f","t">>,
      <<"B","o"," ","t","r","i","p","l","e","d">>,
      <<"C","y"," ","l","i","n","e","d"," ","i","n","t","o"," ","a"," ","t","r","i","p","l","e"," ","p","l","a","y">>,
      <<"D","i"," ","d","o","u","b","l","e","d">>,
      <<"E","d"," ","h","i","t"," ","i","n","t","o"," ","a"," ","d","o","u","b","l","e"," ","p","l","a","y">>,
      <<"D","i"," ","i","n","t","o"," ","a"," ","d","o","u","b","l","e"," "," ","p","l","a","y">>,
      <<"A","l"," ","h","i","t"," ","a"," ","D","o","u","b","l","e">>,
      <<"B","o"," ","w","a","s"," ","i","n","t","e","n","t","i","o","n","a","l","l","y"," ","w","a","l","k","e","d">>,
      <<"C","y"," ","w","a","l","k","e","d">>,
      <<"D","i"," ","o","u","t"," ","c","a","u","g","h","t"," ","s","t","e","a","l","i","n","g">>,
      <<"E","d"," ","s","t","r","u","c","k"," ","o","u","t">>,
      <<"A","l"," ","s","c","o","r","e","d">>,
      <<"2"," ","R","B","I">>,
      <<"B","o"," ","r","e","a","c","h","e","d"," ","o","n"," ","a","n"," ","e","r","r","o","r">>,
      <<"C","y"," ","p","o","p","p","e","d"," ","u","p">> }

\* the texts of n clauses, joined by "; "
RECURSIVE ClauseTexts(_)
ClauseTexts(n) ==
    IF n <= 1 THEN ClausePool
    ELSE { t \o <<";"," ">> \o c : t \in ClauseTexts(n - 1), c \in ClausePool }

DescriptionTextPool == UNION { ClauseTexts(n) : n \in 1..MaxClauses }

ParsePlayDescription ==
    /\ xpc = "call"
    /\ description' = parsePlayDescription(descriptionText)
    /\ xpc' = "done"
    /\ UNCHANGED <<descriptionText, describeFrame>>

InitDescribe ==
    /\ descriptionText \in DescriptionTextPool
    /\ description = <<>>
    /\ xpc = "call"
    /\ DescribeAlone

NextDescribe == ParsePlayDescription

SpecDescribe == InitDescribe /\ [][NextDescribe]_vars

----------------------------------------------------------------------------
(* Display names: normalizePlayerDisplayName (text.ts 1218-1236), and its  *)
(* second application to a name that went through it already: a scoring    *)
(* event keeps normalizePlayerDisplayName(play.batter) (text.ts 855-856),  *)
(* and normalizeName, register and buildUnifiedPlays normalize that value  *)
(* again (text.ts 1076-1077, 979-986, 1102, 1210).                         *)

NamePartPool == { <<"K","e","l","l","y">>, <<"R","o","w","a","n">>, <<"J","r",".">> }

NameSeparatorPool == { <<",">>, <<","," ">>, <<" ">> }

\* the raw names of n parts
RECURSIVE NamesOfParts(_)
NamesOfParts(n) ==
    IF n <= 1 THEN NamePartPool
    ELSE { name \o sep \o part : name \in NamesOfParts(n - 1), sep \in NameSeparatorPool,
                                 part \in NamePartPool }

\* <<>> is null
RawNamePool ==
    UNION { NamesOfParts(n) : n \in 1..MaxNameParts }
    \cup { <<>>, <<"-">>, <<" ">>, <<"K","e","l","l","y",",">>, <<",","R","o","w","a","n">>, <<" "," ","K","e","l","l","y"," ",","," "," ","R","o","w","a","n"," ">> }

NormalizePlayerDisplayName ==
    /\ npc = "call"
    /\ displayOnce' = normalizePlayerDisplayName(displayNameArg)
    /\ npc' = "once"
    /\ UNCHANGED <<displayNameArg, displayTwice, displayFrame>>

\* the value is not null: normalizeName(scoring.batter) of a scoring event
NormalizePlayerDisplayNameAgain ==
    /\ npc = "once"
    /\ displayOnce # <<>>
    /\ displayTwice' = normalizePlayerDisplayName(displayOnce)
    /\ npc' = "twice"
    /\ UNCHANGED <<displayNameArg, displayOnce, displayFrame>>

InitDisplay ==
    /\ displayNameArg \in RawNamePool
    /\ displayOnce = <<>>
    /\ displayTwice = <<>>
    /\ npc = "call"
    /\ DisplayAlone

NextDisplay == NormalizePlayerDisplayName \/ NormalizePlayerDisplayNameAgain

SpecDisplay == InitDisplay /\ [][NextDisplay]_vars

----------------------------------------------------------------------------
(* The supervisor daemon (src/unnamed/part_010): main, shutdown,           *)
(* startFeedForGame. JavaScript runs each piece of code between two awaits *)
(* to completion: one action is one such piece, or one event handler.      *)
(* A child process is running until the operating system ends it, exited   *)
(* until its exit event is handled, and reaped after that.                 *)

GameIds == {1, 2}

DaemonOptionPool ==
    { [mode |-> "d1", once |-> FALSE, manualGameIds |-> {}],
      [mode |-> "d1", once |-> TRUE, manualGameIds |-> {}],
      [mode |-> "schedule", once |-> FALSE, manualGameIds |-> {}],
      [mode |-> "schedule", once |-> TRUE, manualGameIds |-> {}],
      [mode |-> "manual", once |-> FALSE, manualGameIds |-> {1, 2}],
      [mode |-> "manual", once |-> TRUE, manualGameIds |-> {1}] }

\* mutant: activeFeeds is not consulted
ShouldStart_AlwaysStarts(feeds, gameId) == TRUE

\* if (activeFeeds.has(gameId)) continue (lines 83-85, 98-100, 131-133)
ShouldStart(feeds, gameId) == gameId \notin DOMAIN feeds

\* startFeedForGame (lines 341-350): spawn the child and record it
startFeedForGame(st, gameId) ==
    [feeds |-> [id \in DOMAIN st.feeds \cup {gameId} |->
                    IF id = gameId THEN Len(st.kids) + 1 ELSE st.feeds[id]],
     kids |-> Append(st.kids, [gameId |-> gameId, status |-> "running", signalled |-> FALSE])]

\* the for loops over the due games (lines 82-88, 97-103, 122-145); st = [feeds, kids]
RECURSIVE StartDueGames(_, _)
StartDueGames(st, due) ==
    IF due = {} THEN st
    ELSE StartDueGames(
            IF ShouldStart(st.feeds, CHOOSE id \in due : \A other \in due : id <= other)
            THEN startFeedForGame(st, CHOOSE id \in due : \A other \in due : id <= other)
            ELSE st,
            due \ {CHOOSE id \in due : \A other \in due : id <= other})

\* child.kill("SIGTERM") for every recorded child (lines 40-44)
KillRecorded(feeds, kids) ==
    [pid \in 1..Len(kids) |->
        IF \E id \in DOMAIN feeds : feeds[id] = pid
        THEN [kids[pid] EXCEPT !.signalled = TRUE]
        ELSE kids[pid]]

\* shutdown (lines 31-45) on the children as they are after this step
Shutdown(kids, feeds) ==
    /\ stopping' = TRUE
    /\ children' = IF stopping THEN kids ELSE KillRecorded(feeds, kids)

\* lines 90-95, 105-110, 153-157: break on --once, else sleep; the shutdown()
\* after the loop (line 159)
AfterCycle(st) ==
    /\ activeFeeds' = st.feeds
    /\ IF daemonOptions.once
       THEN mpc' = "ended" /\ Shutdown(st.kids, st.feeds)
       ELSE mpc' = "sleeping" /\ children' = st.kids /\ UNCHANGED stopping

\* the start of one iteration (lines 65-72, 96, 113-114): the manual mode
\* starts its games at once, the other modes await their fetch
Iterate ==
    /\ cycles < MaxCycles
    /\ cycles' = cycles + 1
    /\ IF daemonOptions.mode = "manual"
       THEN /\ Len(StartDueGames([feeds |-> activeFeeds, kids |-> children],
                                 daemonOptions.manualGameIds).kids) <= MaxSpawns
            /\ AfterCycle(StartDueGames([feeds |-> activeFeeds, kids |-> children],
                                        daemonOptions.manualGameIds))
       ELSE /\ mpc' = "fetching"
            /\ UNCHANGED <<activeFeeds, children, stopping>>
    /\ UNCHANGED <<daemonOptions, failures, daemonFrame>>

\* main up to the first await (lines 24-72)
FirstIteration ==
    /\ mpc = "loop"
    /\ Iterate

\* sleep is over (lines 93, 108, 157): while (!stopping), then the next iteration
WakeUp ==
    /\ mpc = "sleeping"
    /\ IF stopping
       THEN /\ mpc' = "ended"
            /\ UNCHANGED <<daemonOptions, activeFeeds, children, stopping, cycles, failures, daemonFrame>>
       ELSE Iterate

\* the fetch returns (lines 72-93, 113-157): the games that are due are started
FetchReturns ==
    /\ mpc = "fetching"
    /\ \E due \in SUBSET GameIds :
          /\ Len(StartDueGames([feeds |-> activeFeeds, kids |-> children], due).kids) <= MaxSpawns
          /\ AfterCycle(StartDueGames([feeds |-> activeFeeds, kids |-> children], due))
    /\ UNCHANGED <<daemonOptions, cycles, failures, daemonFrame>>

\* mutant: the failure is not caught; main ends and the children are stopped
FetchThrows_EndsDaemon ==
    /\ mpc = "fetching"
    /\ failures' = Append(failures, cycles)
    /\ mpc' = "ended"
    /\ Shutdown(children, activeFeeds)
    /\ UNCHANGED <<daemonOptions, activeFeeds, cycles, daemonFrame>>

\* the fetch or its parsing throws (lines 146-157): the catch logs the failure
FetchThrows ==
    /\ mpc = "fetching"
    /\ failures' = Append(failures, cycles)
    /\ AfterCycle([feeds |-> activeFeeds, kids |-> children])
    /\ UNCHANGED <<daemonOptions, cycles, daemonFrame>>

\* SIGINT or SIGTERM arrives while main awaits (lines 47-48)
Signal ==
    /\ mpc \in {"fetching", "sleeping"}
    /\ Shutdown(children, activeFeeds)
    /\ UNCHANGED <<daemonOptions, activeFeeds, mpc, cycles, failures, daemonFrame>>

\* a child process ends: its game is final, it fails, or it was signalled
ChildEnds ==
    /\ mpc \in {"fetching", "sleeping", "ended"}
    /\ \E pid \in 1..Len(children) :
          /\ children[pid].status = "running"
          /\ children' = [children EXCEPT ![pid].status = "exited"]
    /\ UNCHANGED <<daemonOptions, activeFeeds, stopping, mpc, cycles, failures, daemonFrame>>

\* child.on("exit", ...) (lines 345-349): activeFeeds.delete(gameId)
OnExit ==
    /\ mpc \in {"fetching", "sleeping", "ended"}
    /\ \E pid \in 1..Len(children) :
          /\ children[pid].status = "exited"
          /\ children' = [children EXCEPT ![pid].status = "reaped"]
          /\ activeFeeds' = [id \in DOMAIN activeFeeds \ {children[pid].gameId} |-> activeFeeds[id]]
    /\ UNCHANGED <<daemonOptions, stopping, mpc, cycles, failures, daemonFrame>>

InitDaemon ==
    /\ daemonOptions \in DaemonOptionPool
    /\ activeFeeds = EmptyMap
    /\ children = <<>>
    /\ stopping = FALSE
    /\ mpc = "loop"
    /\ cycles = 0
    /\ failures = <<>>
    /\ DaemonAlone

NextDaemon ==
    \/ FirstIteration
    \/ WakeUp
    \/ FetchReturns
    \/ FetchThrows
    \/ Signal
    \/ ChildEnds
    \/ OnExit

SpecDaemon == InitDaemon /\ [][NextDaemon]_vars

----------------------------------------------------------------------------
(* runWithConcurrency (src/src/utils/async.ts).  JavaScript runs each piece *)
(* of code between two awaits to completion: one action is the call up to  *)
(* its await of Promise.all, one the continuation of a consume() whose     *)
(* worker promise has settled.  index and current count from 0 as in the   *)
(* source; the slots of results are numbered from 1.                       *)

ItemPool == {"a", "b"}

\* a slot of new Array(n) that was never assigned
NoResult == "empty"

\* the worker is the caller's: its result names the item it was given
WorkerResult(item) == <<"done", item>>

PoolItemLists == UNION {[1..n -> ItemPool] : n \in 0..MaxItems}

\* mutant: one consume() per item
ConsumerCount_OnePerItem(itemCount, limit) == itemCount

\* Math.min(concurrency, items.length) (line 25)
ConsumerCount(itemCount, limit) == Min(limit, itemCount)

\* mutant: results.push(value)
Store_InCompletionOrder(slots, current, value) ==
    [i \in 1..Len(slots) |->
        IF i = 1 + Cardinality({j \in 1..Len(slots) : slots[j] # NoResult}) THEN value ELSE slots[i]]

\* results[current] = value (line 21)
Store(slots, current, value) == [slots EXCEPT ![current + 1] = value]

\* one pass of the while loop of consume() number k up to its await or its
\* return (lines 15-21); st = [index, calls, kids]
TakeNext(st, k, itemCount) ==
    [index |-> st.index + 1,
     calls |-> IF st.index >= itemCount THEN st.calls ELSE Append(st.calls, st.index),
     kids |-> [st.kids EXCEPT ![k] =
                 IF st.index >= itemCount
                 THEN [status |-> "returned", current |-> st.index]
                 ELSE [status |-> "awaiting", current |-> st.index]]]

\* Array.from({ length }, consume) (line 25): the consume() calls begin one
\* after the other, each running to its first await
RECURSIVE StartConsumers(_, _, _)
StartConsumers(st, count, itemCount) ==
    IF Len(st.kids) = count THEN st
    ELSE StartConsumers(
            TakeNext([st EXCEPT !.kids = Append(st.kids, [status |-> "new", current |-> 0])],
                     Len(st.kids) + 1, itemCount),
            count, itemCount)

PoolState == [index |-> poolIndex, calls |-> workerCalls, kids |-> consumers]

SetPoolState(st) ==
    /\ poolIndex' = st.index
    /\ workerCalls' = st.calls
    /\ consumers' = st.kids

\* the call up to await Promise.all (lines 6-25)
RunWithConcurrency ==
    /\ poolOutcome = "call"
    /\ IF poolConcurrency < 1
       THEN /\ poolOutcome' = "thrown"
            /\ UNCHANGED <<poolResults, poolIndex, consumers, workerCalls>>
       ELSE /\ poolOutcome' = "pending"
            /\ poolResults' = [i \in 1..Len(poolItems) |-> NoResult]
            /\ SetPoolState(StartConsumers([index |-> 0, calls |-> <<>>, kids |-> <<>>],
                                           ConsumerCount(Len(poolItems), poolConcurrency),
                                           Len(poolItems)))
    /\ UNCHANGED <<poolItems, poolConcurrency, poolReturned, poolFrame>>

\* a worker promise fulfils: its consume() stores the result and takes the
\* next item (lines 21, 14-21)
WorkerFulfils ==
    /\ poolOutcome \in {"pending", "rejected"}
    /\ \E k \in 1..Len(consumers) :
          /\ consumers[k].status = "awaiting"
          /\ poolResults' = Store(poolResults, consumers[k].current,
                                  WorkerResult(poolItems[consumers[k].current + 1]))
          /\ SetPoolState(TakeNext(PoolState, k, Len(poolItems)))
    /\ UNCHANGED <<poolItems, poolConcurrency, poolOutcome, poolReturned, poolFrame>>

\* a worker promise rejects: its consume() rejects, and with it Promise.all
\* and the call; the other consume() calls go on
WorkerRejects ==
    /\ poolOutcome \in {"pending", "rejected"}
    /\ \E k \in 1..Len(consumers) :
          /\ consumers[k].status = "awaiting"
          /\ consumers' = [consumers EXCEPT ![k].status = "rejected"]
    /\ poolOutcome' = "rejected"
    /\ UNCHANGED <<poolItems, poolConcurrency, poolResults, poolIndex, workerCalls, poolReturned, poolFrame>>

\* every consume() has returned: Promise.all fulfils and the call returns
\* results (lines 25-26)
PoolReturns ==
    /\ poolOutcome = "pending"
    /\ \A k \in 1..Len(consumers) : consumers[k].status = "returned"
    /\ poolOutcome' = "resolved"
    /\ poolReturned' = poolResults
    /\ UNCHANGED <<poolItems, poolConcurrency, poolResults, poolIndex, consumers, workerCalls, poolFrame>>

InitPool ==
    /\ poolItems \in PoolItemLists
    /\ poolConcurrency \in 0..MaxConcurrency
    /\ poolResults = <<>>
    /\ poolIndex = 0
    /\ consumers = <<>>
    /\ workerCalls = <<>>
    /\ poolOutcome = "call"
    /\ poolReturned = <<>>
    /\ PoolAlone

NextPool == RunWithConcurrency \/ WorkerFulfils \/ WorkerRejects \/ PoolReturns

SpecPool == InitPool /\ [][NextPool]_vars

----------------------------------------------------------------------------
(* TtlCache (src/unnamed/part_012), the cache in front of the upstream     *)
(* fetches.  Date.now() is cacheNow, in milliseconds; get returns          *)
(* CacheNull for null.                                                     *)

CacheKeys == {1, 2}
CacheValues == {"v", "w"}
CacheNull == "null"

\* mutant: an entry is dropped from the millisecond of its expiry on
Expired_AtExpiry(now, entry) == now >= entry.expiresAt

\* Date.now() > entry.expiresAt (line 10)
Expired(now, entry) == now > entry.expiresAt

MapPut(map, key, value) == [k \in DOMAIN map \cup {key} |-> IF k = key THEN value ELSE map[k]]

MapDelete(map, key) == [k \in DOMAIN map \ {key} |-> map[k]]

\* get(key) (lines 4-16): the value returned
GetValue(map, key, now) ==
    IF key \notin DOMAIN map THEN CacheNull
    ELSE IF Expired(now, map[key]) THEN CacheNull
    ELSE map[key].value

\* get(key) (lines 10-13): the store afterwards
GetStore(map, key, now) ==
    IF key \in DOMAIN map /\ Expired(now, map[key]) THEN MapDelete(map, key) ELSE map

\* set(key, value, ttlMs) (lines 18-23)
CacheSet ==
    /\ cpc = "on"
    /\ \E key \in CacheKeys : \E value \in CacheValues : \E ttlMs \in 0..MaxTtl :
          /\ cacheStore' = MapPut(cacheStore, key, [expiresAt |-> cacheNow + ttlMs, value |-> value])
          /\ cacheSets' = MapPut(cacheSets, key, [value |-> value, at |-> cacheNow, ttlMs |-> ttlMs])
    /\ UNCHANGED <<cacheNow, cacheGot, cpc, cacheFrame>>

\* get(key) (lines 4-16)
CacheGet ==
    /\ cpc = "on"
    /\ \E key \in CacheKeys :
          /\ cacheGot' = <<[key |-> key, at |-> cacheNow, value |-> GetValue(cacheStore, key, cacheNow)]>>
          /\ cacheStore' = GetStore(cacheStore, key, cacheNow)
    /\ UNCHANGED <<cacheNow, cacheSets, cpc, cacheFrame>>

\* a millisecond passes
CacheTick ==
    /\ cpc = "on"
    /\ cacheNow < MaxTime
    /\ cacheNow' = cacheNow + 1
    /\ UNCHANGED <<cacheStore, cacheSets, cacheGot, cpc, cacheFrame>>

InitCache ==
    /\ cacheStore = EmptyMap
    /\ cacheNow = 0
    /\ cacheSets = EmptyMap
    /\ cacheGot = <<>>
    /\ cpc = "on"
    /\ CacheAlone

NextCache == CacheSet \/ CacheGet \/ CacheTick

SpecCache == InitCache /\ [][NextCache]_vars

----------------------------------------------------------------------------
\* C1: every two calls of extractLivePlayEvents on the unchanged payload
\* return the same ordered sequence of play keys.
C1_SameKeysEveryRun ==
    \A i \in 1..Len(returned) : \A j \in 1..Len(returned) : Keys(returned[i]) = Keys(returned[j])

\* a second call has returned plays, two of them with the same signature
C1_Witness ==
    /\ Len(returned) = 2
    /\ Len(returned[2]) >= 2
    /\ \E sig \in DOMAIN occurrenceBySignature : occurrenceBySignature[sig] >= 2

\* C2: within one run any two emitted plays have different keys.
C2_KeysDistinct ==
    /\ \A i \in 1..Len(events) : \A j \in 1..Len(events) : i # j => events[i].key # events[j].key
    /\ \A r \in 1..Len(returned) : \A i \in 1..Len(returned[r]) : \A j \in 1..Len(returned[r]) :
          i # j => returned[r][i].key # returned[r][j].key

\* a run emitted two rows that differ only in outs and two rows with one signature
C2_Witness ==
    /\ \E i \in 1..Len(events) : \E j \in 1..Len(events) :
          /\ i # j
          /\ events[i].text = events[j].text /\ events[i].batter = events[j].batter
          /\ events[i].pitcher = events[j].pitcher /\ events[i].inning = events[j].inning
          /\ events[i].half = events[j].half /\ events[i].outs # events[j].outs
    /\ \E sig \in DOMAIN occurrenceBySignature : occurrenceBySignature[sig] >= 2

\* C3: a play key is sent to the posting client at most once, over all cycles,
\* posting failures and restarts of the feed of one game.
C3_PostedAtMostOnce ==
    \A i \in 1..Len(tweets) : \A j \in 1..Len(tweets) :
        (i # j /\ tweets[i].kind = "play" /\ tweets[j].kind = "play") => tweets[i].key # tweets[j].key

\* the fielder-code digits of the shorthand: the digits 1 to 9 of its first
\* all-digit word
C10_ShorthandDigits == ValidFielderCodes(FirstAllDigits(SplitSpaces(trim(scoringDecisionArg))))

C10_TextCase(textLocations, base) ==
    /\ FieldLocationsOf(resolved) = textLocations
    /\ FielderCodesOf(resolved) = <<textLocations[1].code>>
    /\ LocationSourceOf(resolved) = "text"
    /\ LocationConfidenceOf(resolved) = "1"
    /\ PlayCodeOfContext(resolved) = PlayCodeOfContext(base)
    /\ RbiOfContext(resolved) = RbiOfContext(base)

C10_ShorthandCase(digits) ==
    IF digits # <<>>
    THEN /\ FielderCodesOf(resolved) = digits
         /\ FieldLocationsOf(resolved) = MapLocations(digits)
         /\ LocationSourceOf(resolved) = "scorecard"
         /\ LocationConfidenceOf(resolved) = "0.9"
    ELSE /\ FielderCodesOf(resolved) = <<>>
         /\ LocationSourceOf(resolved) = "none"
         /\ LocationConfidenceOf(resolved) = "0"

C10_Cases(textLocations) ==
    IF textLocations # <<>>
    THEN C10_TextCase(textLocations, parseScoringDecisionContext(scoringDecisionArg))
    ELSE C10_ShorthandCase(C10_ShorthandDigits)

\* C10: the play text has priority over the scorecard shorthand: with a text
\* location the codes and locations are the text location, source text,
\* confidence 1, play code and RBI from the shorthand; without one the
\* shorthand digits are used with source scorecard, confidence 0.9; without
\* digits either the source is none and the confidence 0.
C10_TextPriority ==
    spc = "done" => C10_Cases(parseFieldLocationsFromText(playTextArg))

\* a call whose text location replaced different shorthand digits and kept the RBI
C10_Witness ==
    /\ spc = "done"
    /\ C10_ShorthandDigits # <<>>
    /\ LocationSourceOf(resolved) = "text"
    /\ FielderCodesOf(resolved) # C10_ShorthandDigits
    /\ RbiOfContext(resolved) = 2

C9_SameIdForSameName ==
    \A i \in 1..Len(registerCalls) : \A j \in 1..Len(registerCalls) :
        (/\ registerCalls[i].side = registerCalls[j].side
         /\ normalizeName(registerCalls[i].name) = normalizeName(registerCalls[j].name))
        => registerCalls[i].id = registerCalls[j].id

C9_NoSecondPlayer ==
    \A p \in DOMAIN playersById : \A q \in DOMAIN playersById :
        (/\ playersById[p].normalizedName = playersById[q].normalizedName
         /\ playersById[p].sides = playersById[q].sides)
        => p = q

C9_SetsGrow ==
    \A p \in DOMAIN playersById :
        /\ p \in DOMAIN playersById'
        /\ Range(playersById[p].jerseyNumbers) \subseteq Range(playersById'[p].jerseyNumbers)
        /\ Range(playersById[p].positions) \subseteq Range(playersById'[p].positions)

\* C9: register calls with the same side and the same normalized name return
\* the same id and create no second player; the jersey-number and position
\* sets of a player only grow and no player is removed.
C9_RegistryStable ==
    [](C9_SameIdForSameName /\ C9_NoSecondPlayer) /\ [][C9_SetsGrow]_vars

\* "Smith, John" and "John Smith" were registered on one side and the one
\* player has gained a jersey number and a position
C9_Witness ==
    /\ \E i \in 1..Len(registerCalls) : \E j \in 1..Len(registerCalls) :
          /\ registerCalls[i].side = registerCalls[j].side
          /\ registerCalls[i].name # registerCalls[j].name
          /\ HasChar(registerCalls[i].name, ",")
          /\ registerCalls[i].id = registerCalls[j].id
    /\ \E p \in DOMAIN playersById :
          Len(playersById[p].jerseyNumbers) >= 1 /\ Len(playersById[p].positions) >= 1

C4_PlayEvents(blocks) ==
    Cardinality({i \in 1..Len(blocks[1].events) : blocks[1].events[i].type = "play"})

C4_Representing(index) ==
    {p \in 1..Len(unifiedPlays) : unifiedPlays[p].scoringMatchIndex = index}

\* C4: every scoring-summary entry is represented by exactly one unified play,
\* a play_by_play play when it was merged and a scoring_summary play when it
\* was not, and the list has one play per play event plus one per unmatched entry.
C4_EachEntryOnce ==
    upc = "done" =>
        /\ \A index \in 1..Len(scoringTimeline) :
              /\ Cardinality(C4_Representing(index)) = 1
              /\ \A p \in C4_Representing(index) :
                    unifiedPlays[p].source =
                        (IF index \in usedScoring THEN "play_by_play" ELSE "scoring_summary")
        /\ Len(unifiedPlays) =
              C4_PlayEvents(finalGame) + Cardinality({i \in 1..Len(scoringTimeline) : i \notin usedScoring})

\* two play events and two entries, one entry merged and one emitted on its own
C4_Witness ==
    /\ upc = "done"
    /\ C4_PlayEvents(finalGame) >= 2
    /\ \E i \in 1..Len(scoringTimeline) : \E j \in 1..Len(scoringTimeline) :
          i \in usedScoring /\ j \notin usedScoring

\* number of the play that the event at position i of the block produced
C5_PlayOf(i) ==
    Cardinality({j \in 1..i : finalGame[1].events[j].type = "play"})

\* the half the event at position i of the block belongs to
C5_HalfOf(i) ==
    IF \E j \in 1..i : finalGame[1].events[j].type = "half"
    THEN finalGame[1].events[CHOOSE j \in 1..i :
            /\ finalGame[1].events[j].type = "half"
            /\ \A m \in (j + 1)..i : finalGame[1].events[m].type # "half"].half
    ELSE NoHalf

C5_SameHalfInning(i, index) ==
    /\ scoringTimeline[index].inningNumber = finalGame[1].inning
    /\ scoringTimeline[index].half = C5_HalfOf(i)

C5_SameText(i, index) ==
    NormalizedTexts[scoringTimeline[index].text] = NormalizedTexts[finalGame[1].events[i].text]

C5_SameFields(i, index) ==
    /\ NormalizedNames[scoringTimeline[index].batter] = NormalizedNames[finalGame[1].events[i].batter]
    /\ NormalizedNames[scoringTimeline[index].pitcher] = NormalizedNames[finalGame[1].events[i].pitcher]
    /\ scoringTimeline[index].runsScoredOnPlay = RunsScored[finalGame[1].events[i].text]

\* a play event and an entry of one half inning: different texts, same batter, pitcher and runs
C5_FallbackPair(i, index) ==
    /\ finalGame[1].events[i].type = "play"
    /\ C5_SameHalfInning(i, index)
    /\ ~C5_SameText(i, index)
    /\ C5_SameFields(i, index)

C5_Pairs ==
    {pair \in (1..Len(finalGame[1].events)) \X (1..Len(scoringTimeline)) : C5_FallbackPair(pair[1], pair[2])}

\* the entry was merged into an earlier play
C5_MergedBefore(i, index) ==
    \E q \in 1..(C5_PlayOf(i) - 1) : unifiedPlays[q].scoringMatchIndex = index

\* another entry that is still unmerged has the event's text, or comes first with the same fields
C5_Rival(i, index) ==
    \E other \in 1..Len(scoringTimeline) :
        /\ other # index
        /\ C5_SameHalfInning(i, other)
        /\ ~C5_MergedBefore(i, other)
        /\ (C5_SameText(i, other) \/ (other < index /\ C5_SameFields(i, other)))

C5_OnePlay(play, index) ==
    /\ play.scoringMatchIndex = index
    /\ C4_Representing(index) = {p \in 1..Len(unifiedPlays) : unifiedPlays[p] = play}
    /\ play.source = "play_by_play"
    /\ play.isScoringPlay
    /\ play.decisionRaw = scoringTimeline[index].scoringDecision

C5_EntryContext(play, index) ==
    /\ play.decisionContext = scoringTimeline[index].scoringDecisionContext
    /\ play.fielderCodes = FielderCodesOf(scoringTimeline[index].scoringDecisionContext)
    /\ play.fieldLocations = FieldLocationsOf(scoringTimeline[index].scoringDecisionContext)

C5_TextContext(play) ==
    /\ play.decisionContext = TextContexts[play.text]
    /\ play.fielderCodes = FielderCodesOf(TextContexts[play.text])
    /\ play.fieldLocations = FieldLocationsOf(TextContexts[play.text])

\* C5 as stated: every such pair yields one play_by_play play, a scoring play
\* that carries the entry's scoring decision and the codes and locations of
\* the entry's scoring decision context.
C5_FallbackPairMerged ==
    upc = "done" =>
        \A pair \in C5_Pairs :
            /\ C5_OnePlay(unifiedPlays[C5_PlayOf(pair[1])], pair[2])
            /\ C5_EntryContext(unifiedPlays[C5_PlayOf(pair[1])], pair[2])

\* C5 amended: the pair yields that one play when the entry has not been
\* merged into an earlier play and no other unmerged entry of the half inning
\* has the event's text or comes first with the same fields; the context,
\* codes and locations are those of the entry's context when the entry has
\* one, else those parsed from the event's text.
C5_FallbackPairMergedWhenFirst ==
    upc = "done" =>
        \A pair \in C5_Pairs :
            (~C5_MergedBefore(pair[1], pair[2]) /\ ~C5_Rival(pair[1], pair[2])) =>
                /\ C5_OnePlay(unifiedPlays[C5_PlayOf(pair[1])], pair[2])
                /\ IF scoringTimeline[pair[2]].scoringDecisionContext.present
                   THEN C5_EntryContext(unifiedPlays[C5_PlayOf(pair[1])], pair[2])
                   ELSE C5_TextContext(unifiedPlays[C5_PlayOf(pair[1])])

\* a fallback pair was merged and the play has the entry's context
C5_Witness ==
    /\ upc = "done"
    /\ \E pair \in C5_Pairs :
          /\ ~C5_MergedBefore(pair[1], pair[2])
          /\ ~C5_Rival(pair[1], pair[2])
          /\ scoringTimeline[pair[2]].scoringDecisionContext.present
          /\ unifiedPlays[C5_PlayOf(pair[1])].locationSource = "text"
          /\ unifiedPlays[C5_PlayOf(pair[1])].fielderCodes # FielderCodesOf(resolveScoringDecisionContext(<<>>, finalGame[1].events[pair[1]].text))

\* position j lies in the run of consecutive substitution plays that follows
\* the non-substitution play at position i
C6_InRunAfter(i, j) ==
    /\ i < j
    /\ j <= Len(derivePlays)
    /\ ~derivePlays[i].isSubstitution
    /\ \A k \in (i + 1)..j : derivePlays[k].isSubstitution

\* C6: in each run of consecutive substitution plays that follows a
\* non-substitution play, every substitution play has the derived awayScore,
\* homeScore and outsAfterPlay of that preceding play.
C6_SubstitutionsKeepState ==
    dpc = "done" =>
        \A i \in 1..Len(derivePlays) : \A j \in 1..Len(derivePlays) :
            C6_InRunAfter(i, j) =>
                /\ playStates[j].awayScore = playStates[i].awayScore
                /\ playStates[j].homeScore = playStates[i].homeScore
                /\ playStates[j].outsAfterPlay = playStates[i].outsAfterPlay

\* the score half of C6 alone: the backward pass never subtracts for a substitution
C6_SubstitutionsKeepScore ==
    dpc = "done" =>
        \A i \in 1..Len(derivePlays) : \A j \in 1..Len(derivePlays) :
            C6_InRunAfter(i, j) =>
                /\ playStates[j].awayScore = playStates[i].awayScore
                /\ playStates[j].homeScore = playStates[i].homeScore

\* the last play is a substitution of the half inning and outs of the play
\* before it, and the out words of its own text are added to its outs
C6_LastSubstitutionCountsOuts ==
    /\ dpc = "done"
    /\ Len(derivePlays) = 2
    /\ C6_InRunAfter(1, 2)
    /\ isSameHalfInning(derivePlays[1], derivePlays[2])
    /\ derivePlays[2].outs = 1
    /\ playStates[1].outsAfterPlay = 1
    /\ playStates[2].outsAfterPlay = 2

\* the limit the builders apply to the maxLength of the input
C7_Limit ==
    IF tweetInput.maxLength = NullNum THEN 280
    ELSE IF tweetInput.maxLength < 20 THEN 20
    ELSE IF tweetInput.maxLength > 280 THEN 280
    ELSE tweetInput.maxLength

\* the text the builder composed before it cut it
C7_Composed ==
    IF tweetInput.kind = "play" THEN PlayTweetBody(tweetInput) ELSE FinalTweetBody(tweetInput)

C7_EndsWithEllipsis ==
    Len(tweetText) >= 3 /\ SubSeq(tweetText, Len(tweetText) - 2, Len(tweetText)) = <<".",".",".">>

C8_Outs ==
    IF tweetInput.stateAfterPlay.outsAfterPlay # NullNum THEN tweetInput.stateAfterPlay.outsAfterPlay
    ELSE IF tweetInput.play.outs # NullNum THEN tweetInput.play.outs
    ELSE tweetInput.liveSummary.situation.outs

C8_OutsCount ==
    IF C8_Outs = NullNum THEN <<"O","u","t","s"," ","?">>
    ELSE IF C8_Outs = 1 THEN <<"1"," ","O","u","t">>
    ELSE Str(C8_Outs) \o <<" ","O","u","t","s">>

C8_ThirdOut == C8_Outs = 3 /\ ~tweetInput.play.isSubstitution

C8_Header ==
    IF C8_ThirdOut
    THEN (IF tweetInput.play.half = "top" THEN <<"M","i","d"," ">> ELSE <<"E","n","d"," ">>) \o ordinal(tweetInput.play.inning)
    ELSE (IF tweetInput.play.half = "top" THEN <<"T","o","p"," ">> ELSE <<"B","o","t","t","o","m"," ">>)
            \o ordinal(tweetInput.play.inning) \o <<" ","|"," ">> \o C8_OutsCount

C8_KnownHalfInning ==
    /\ tpc = "done"
    /\ tweetInput.kind = "play"
    /\ tweetInput.play.inning # NullNum
    /\ tweetInput.play.half # NoHalf

\* C8: a play tweet of a play with a known inning and half, when the cut has
\* left its header line, starts with the line 'Mid <inning>' (top) or
\* 'End <inning>' (bottom) and no outs count when the play is not a
\* substitution and the outs after it are 3, and with 'Top <inning> | <outs>'
\* or 'Bottom <inning> | <outs>' in every other case, a substitution with 3
\* outs included (<outs> is '1 Out', 'n Outs', or 'Outs ?' when unknown).
C8_HeaderLabel ==
    (C8_KnownHalfInning /\ Len(tweetText) >= Len(C8_Header) + 3) =>
        /\ StartsWith(tweetText, C8_Header)
        /\ tweetText[Len(C8_Header) + 1] \in {"\n", "."}

\* a strikeout that is the third out of the top of the 1st: 'Mid 1st'
C8_Witness ==
    /\ C8_KnownHalfInning
    /\ C8_ThirdOut
    /\ tweetInput.play.half = "top"
    /\ StartsWith(tweetText, <<"M","i","d"," ","1","s","t">> \o NL)

----------------------------------------------------------------------------
\* the order of the outcomes the description parser tries
C11_Order ==
    << "home_run", "triple", "double", "single", "intentional_walk", "walk", "hit_by_pitch",
       "caught_stealing", "pickoff", "stolen_base", "strikeout", "ground_out", "fly_out",
       "line_out", "foul_out", "sacrifice", "fielder_choice", "reached_on_error", "wild_pitch",
       "passed_ball", "balk" >>

C11_MatcherOf(outcome) ==
    orderedMatchers[CHOOSE k \in 1..Len(orderedMatchers) : orderedMatchers[k].outcome = outcome]

\* the positions of C11_Order whose pattern occurs in the lower-cased text
C11_Hits(lower) == {k \in 1..Len(C11_Order) : MatcherTest(C11_MatcherOf(C11_Order[k]), lower)}

C11_TagSet(tags) == {tags[i] : i \in 1..Len(tags)}

C11_Detected(lower) ==
    {tag \in {"double_play"} : ContainsPhrase(lower, <<"d","o","u","b","l","e"," ","p","l","a","y">>)}
    \cup {tag \in {"triple_play"} : ContainsPhrase(lower, <<"t","r","i","p","l","e"," ","p","l","a","y">>)}
    \cup {tag \in {"run_scored"} : ContainsPhrase(lower, <<"s","c","o","r","e","d">>) \/ ContainsPhrase(lower, <<"s","c","o","r","e","s">>)}
    \cup {tag \in {"rbi"} : ContainsPhrase(lower, <<"r","b","i">>)}

\* the word occurs in the text, and only as the first word of "<word> play"
C11_OnlyInPlayPhrase(lower, word) ==
    /\ \E i \in 1..Len(lower) : MatchesAt(lower, i, word)
    /\ \A i \in 1..Len(lower) : MatchesAt(lower, i, word) => MatchesAt(lower, i, word \o <<" ","p","l","a","y">>)

C11_Expected(lower, hits, result) ==
    /\ hits = {} => result.outcome = "other" /\ C11_TagSet(result.tags) = C11_Detected(lower)
    /\ hits # {} =>
          /\ result.outcome = C11_Order[CHOOSE k \in hits : \A h \in hits : k <= h]
          /\ C11_TagSet(result.tags) =
                C11_Detected(lower) \cup {C11_MatcherOf(result.outcome).tag}
    /\ \A i \in 1..Len(result.tags) : \A j \in 1..Len(result.tags) :
          result.tags[i] = result.tags[j] => i = j
    /\ C11_OnlyInPlayPhrase(lower, <<"d","o","u","b","l","e">>) => result.outcome # "double"
    /\ C11_OnlyInPlayPhrase(lower, <<"t","r","i","p","l","e">>) => result.outcome # "triple"

\* C11: parsePlayDescription returns the outcome of the first matcher, in the
\* fixed order home_run .. balk, whose pattern occurs in the text, and other
\* when none occurs; the tags are the independently detected tags plus the tag
\* of the matched outcome; "double play" and "triple play" never yield the
\* outcome double or triple.
C11_FirstMatcherWins ==
    xpc = "done" =>
        C11_Expected(toLowerCase(descriptionText), C11_Hits(toLowerCase(descriptionText)), description)

\* a caught stealing in a double play: several matchers occur in the text, the
\* phrase "double play" is there, and the call has returned
C11_Witness ==
    /\ xpc = "done"
    /\ Cardinality(C11_Hits(toLowerCase(descriptionText))) >= 1
    /\ C11_OnlyInPlayPhrase(toLowerCase(descriptionText), <<"d","o","u","b","l","e">>)
    /\ ContainsPhrase(toLowerCase(descriptionText), <<"c","a","u","g","h","t"," ","s","t","e","a","l","i","n","g">>)
    /\ description.outcome = "caught_stealing"
    /\ "double_play" \in C11_TagSet(description.tags)

----------------------------------------------------------------------------
C12_CommaCount(s) == Cardinality({i \in 1..Len(s) : s[i] = ","})

\* C12: normalizePlayerDisplayName turns 'Last,First' into 'First Last', maps
\* null to null, and its result is a fixed point: applied again to a non-null
\* result it returns that result unchanged.
C12_ResultIsFixedPoint ==
    /\ npc # "call" /\ displayNameArg = <<"K","e","l","l","y",",","R","o","w","a","n">> => displayOnce = <<"R","o","w","a","n"," ","K","e","l","l","y">>
    /\ npc # "call" /\ displayNameArg = <<>> => displayOnce = <<>>
    /\ npc = "twice" => displayTwice = displayOnce

\* the same for the names with at most one comma
C12_FixedPointWithOneComma ==
    /\ npc # "call" /\ displayNameArg = <<"K","e","l","l","y",",","R","o","w","a","n">> => displayOnce = <<"R","o","w","a","n"," ","K","e","l","l","y">>
    /\ npc # "call" /\ displayNameArg = <<>> => displayOnce = <<>>
    /\ npc = "twice" /\ C12_CommaCount(displayNameArg) <= 1 => displayTwice = displayOnce

----------------------------------------------------------------------------
C13_PlayEventIndexes == {i \in 1..Len(finalGame[1].events) : finalGame[1].events[i].type = "play"}

\* the play events of the entry's inning and half that have the entry's normalized text
C13_ExactEvents(index) ==
    {i \in C13_PlayEventIndexes : C5_SameHalfInning(i, index) /\ C5_SameText(i, index)}

\* the play events the entry was merged with
C13_MergedWith(index) ==
    {i \in C13_PlayEventIndexes : unifiedPlays[C5_PlayOf(i)].scoringMatchIndex = index}

C13_Unmatched(i) == unifiedPlays[C5_PlayOf(i)].scoringMatchIndex = 0

\* C13: exact match of the normalized text takes priority over the fallback:
\* an entry that has an unmatched play event of its inning and half with the
\* same normalized text is merged with such an event, and never through the
\* fallback on batter, pitcher and runs.
C13_ExactTextFirst ==
    upc = "done" =>
        \A index \in 1..Len(scoringTimeline) :
            (\E e \in C13_ExactEvents(index) : C13_Unmatched(e)) =>
                \E i \in C13_MergedWith(index) : C5_SameText(i, index)

\* the priority as seen from one play event: an event merged through the
\* fallback had no unmerged entry of its inning and half with its own text
C13_ExactTextFirstForEvent ==
    upc = "done" =>
        \A i \in C13_PlayEventIndexes : \A index \in 1..Len(scoringTimeline) :
            (i \in C13_MergedWith(index) /\ ~C5_SameText(i, index)) =>
                ~\E other \in 1..Len(scoringTimeline) :
                    /\ C5_SameHalfInning(i, other)
                    /\ C5_SameText(i, other)
                    /\ ~C5_MergedBefore(i, other)

----------------------------------------------------------------------------
\* the run estimate of a play: the largest of the three counts, 1 for a home
\* run when all three are 0
C14_Largest(scoredMentions, rbiFromDecision, rbiFromText, homeRun) ==
    IF Max(scoredMentions, Max(rbiFromDecision, rbiFromText)) = 0 /\ homeRun
    THEN 1
    ELSE Max(scoredMentions, Max(rbiFromDecision, rbiFromText))

C14_RunEstimate(play) ==
    C14_Largest(CountPhrase(toLowerCase(cleanText(play.text)), <<"s","c","o","r","e","d">>),
                OrZero(parseRbiCount(play.scoringDecision)),
                OrZero(parseRbiCount(cleanText(play.text))),
                ContainsPhrase(toLowerCase(cleanText(play.text)), <<"h","o","m","e","r","e","d">>)
                    \/ ContainsPhrase(toLowerCase(cleanText(play.text)), <<"h","o","m","e"," ","r","u","n">>))

C14_RunEstimates == [play \in LivePlayPool |-> C14_RunEstimate(play)]

\* the score of the side batting in the given half before the following play
\* is undone; an unknown score stays unknown
C14_Before(score, following, half) ==
    IF score = NullNum THEN NullNum
    ELSE IF following.half = half /\ ~following.isSubstitution
    THEN Max(0, score - C14_RunEstimates[following])
    ELSE score

\* C14: the last play has the live summary score; every earlier play has the
\* score of the following play minus the runs estimated for that following
\* play on its batting side (top is away, bottom is home), floored at 0;
\* nothing is subtracted for a following play whose half is unknown, that is
\* a substitution, or whose estimate is 0.
C14_ScoreBackward ==
    dpc = "done" =>
        /\ Len(derivePlays) > 0 =>
              /\ playStates[Len(derivePlays)].awayScore = deriveSummary.visitorScore
              /\ playStates[Len(derivePlays)].homeScore = deriveSummary.homeScore
        /\ \A i \in 1..(Len(derivePlays) - 1) :
              /\ playStates[i].awayScore = C14_Before(playStates[i + 1].awayScore, derivePlays[i + 1], "top")
              /\ playStates[i].homeScore = C14_Before(playStates[i + 1].homeScore, derivePlays[i + 1], "bottom")

\* three plays: the last one an un-annotated home run in the bottom half that
\* takes one run off the home score, the one before it a top-half play whose
\* estimate exceeds the away score, which is floored at 0
C14_Witness ==
    /\ dpc = "done"
    /\ Len(derivePlays) = 3
    /\ deriveSummary.homeScore = 1 /\ deriveSummary.visitorScore = 2
    /\ derivePlays[3].half = "bottom" /\ C14_RunEstimate(derivePlays[3]) = 1
    /\ ContainsPhrase(toLowerCase(derivePlays[3].text), <<"h","o","m","e","r","e","d">>)
    /\ playStates[2].homeScore = 0 /\ playStates[2].awayScore = 2
    /\ derivePlays[2].half = "top" /\ ~derivePlays[2].isSubstitution
    /\ C14_RunEstimate(derivePlays[2]) > 2
    /\ playStates[1].homeScore = 0 /\ playStates[1].awayScore = 0

----------------------------------------------------------------------------
\* the text-based estimate of the outs recorded on a play
C15_Estimate(lower) ==
    IF ContainsPhrase(lower, <<"t","r","i","p","l","e"," ","p","l","a","y">>) THEN 3
    ELSE IF ContainsPhrase(lower, <<"d","o","u","b","l","e"," ","p","l","a","y">>) THEN 2
    ELSE IF CountPhrase(lower, <<"o","u","t"," ","a","t">>) + CountPhrase(lower, <<"o","u","t"," ","o","n"," ","t","h","e"," ","p","l","a","y">>) > 0
    THEN CountPhrase(lower, <<"o","u","t"," ","a","t">>) + CountPhrase(lower, <<"o","u","t"," ","o","n"," ","t","h","e"," ","p","l","a","y">>)
    ELSE IF \E k \in 1..Len(OutPhrases) : ContainsPhrase(lower, OutPhrases[k]) THEN 1
    ELSE 0

C15_Clamped(value) == IF value < 0 THEN 0 ELSE IF value > 3 THEN 3 ELSE value

\* both plays are in one known half inning
C15_SameHalfInning(a, b) ==
    a.inning # NullNum /\ a.half # NoHalf /\ a.inning = b.inning /\ a.half = b.half

\* the following play is in another half inning than the play
C15_NewHalfInning(a, b) == a.inning # b.inning \/ a.half # b.half

C15_KnownHalfInning(a) == a.inning # NullNum /\ a.half # NoHalf

C15_Estimates == [play \in LivePlayPool |-> C15_Estimate(toLowerCase(cleanText(play.text)))]

\* the outs after play i by the three rules, in their order
C15_Decided(i) ==
    IF i < Len(derivePlays) /\ C15_SameHalfInning(derivePlays[i], derivePlays[i + 1])
          /\ derivePlays[i + 1].outs # NullNum
    THEN playStates[i].outsAfterPlay = C15_Clamped(derivePlays[i + 1].outs)
    ELSE IF i < Len(derivePlays) /\ C15_NewHalfInning(derivePlays[i], derivePlays[i + 1])
    THEN playStates[i].outsAfterPlay = 3
    ELSE derivePlays[i].outs # NullNum =>
            playStates[i].outsAfterPlay =
                C15_Clamped(derivePlays[i].outs + C15_Estimates[derivePlays[i]])

\* C15: outsAfterPlay of each play is, in this order: the explicit outs of the
\* next play when that play is in the same half inning; 3 when the next play
\* starts a new half inning; the play's own explicit outs plus the text-based
\* estimate of the outs recorded on it; every number clamped to 0..3.
C15_OutsInOrder ==
    dpc = "done" => \A i \in 1..Len(derivePlays) : C15_Decided(i)

\* the same for the plays whose inning and half are known, next play included
C15_OutsInOrderOfKnownHalves ==
    dpc = "done" =>
        \A i \in 1..Len(derivePlays) :
            (/\ C15_KnownHalfInning(derivePlays[i])
             /\ i < Len(derivePlays) => C15_KnownHalfInning(derivePlays[i + 1])) => C15_Decided(i)

----------------------------------------------------------------------------
\* the backward pass takes no runs off for the substitution at position i
C16_NoRunsSubtracted(i) ==
    i > 1 =>
        /\ playStates[i - 1].awayScore = playStates[i].awayScore
        /\ playStates[i - 1].homeScore = playStates[i].homeScore

\* the outs after play i come from its own explicit outs count: neither of
\* the two rules on the next play applies
C16_OwnOutsUsed(i) ==
    /\ derivePlays[i].outs # NullNum
    /\ i < Len(derivePlays) =>
          /\ isSameHalfInning(derivePlays[i], derivePlays[i + 1])
          /\ derivePlays[i + 1].outs = NullNum

\* C16: a play flagged isSubstitution is never treated as a scoring or
\* out-recording event: whatever its text and scoring decision, no runs are
\* subtracted for it and no outs are added for it to an explicit outs count.
C16_SubstitutionsNeverCount ==
    dpc = "done" =>
        \A i \in 1..Len(derivePlays) :
            derivePlays[i].isSubstitution =>
                /\ C16_NoRunsSubtracted(i)
                /\ C16_OwnOutsUsed(i) => playStates[i].outsAfterPlay = C15_Clamped(derivePlays[i].outs)

\* the scoring half alone
C16_SubstitutionsSubtractNoRuns ==
    dpc = "done" =>
        \A i \in 1..Len(derivePlays) : derivePlays[i].isSubstitution => C16_NoRunsSubtracted(i)

----------------------------------------------------------------------------
C17_NoExplicitOuts == \A i \in 1..Len(derivePlays) : derivePlays[i].outs = NullNum

----------------------------------------------------------------------------
C18_Rows(s) == liveStats.sections[s].tables[1].rows

C18_IsPlayByPlay(s) == ParsedTitlePool[liveStats.sections[s].title].isPlayByPlay

C18_IsMarker(s, r) == ParsedRowPool[C18_Rows(s)[r]].type = "half"

\* a play row that carries no half and inning of its own
C18_IsPlainPlay(s, r) ==
    /\ ParsedRowPool[C18_Rows(s)[r]].type = "play"
    /\ ParsedRowPool[C18_Rows(s)[r]].inning = NullNum
    /\ ParsedRowPool[C18_Rows(s)[r]].half = NoHalf

C18_PlayRowsUpTo(s, r) ==
    Cardinality({k \in 1..r : ParsedRowPool[C18_Rows(s)[k]].type = "play"})

\* the event emitted for row r of section s
C18_EventOf(s, r) ==
    returned[1][C18_PlayRowsUpTo(s, r)
                + (IF s = 2 /\ C18_IsPlayByPlay(1) THEN C18_PlayRowsUpTo(1, Len(C18_Rows(1))) ELSE 0)]

C18_HasMarker(s, r) == \E m \in 1..(r - 1) : C18_IsMarker(s, m)

\* the first cell of the most recent marker row before row r
C18_LastMarker(s, r) ==
    C18_Rows(s)[CHOOSE m \in 1..(r - 1) :
        C18_IsMarker(s, m) /\ \A k \in (m + 1)..(r - 1) : ~C18_IsMarker(s, k)].first

C18_PlainPlays ==
    {p \in {1, 2} \X (1..MaxRows) :
        p[2] <= Len(C18_Rows(p[1])) /\ C18_IsPlayByPlay(p[1]) /\ C18_IsPlainPlay(p[1], p[2])}

\* C18: each emitted play takes its half and its inning number from the most
\* recent half-inning marker row that precedes it; the inning of the section
\* title is used only when no marker row has been seen yet.
C18_ContextFromMarker ==
    returned # <<>> =>
        \A p \in C18_PlainPlays :
            IF C18_HasMarker(p[1], p[2])
            THEN /\ C18_EventOf(p[1], p[2]).half = parseHalfAndInning(C18_LastMarker(p[1], p[2])).half
                 /\ C18_EventOf(p[1], p[2]).inning = parseHalfAndInning(C18_LastMarker(p[1], p[2])).inning
            ELSE /\ C18_EventOf(p[1], p[2]).half = NoHalf
                 /\ C18_EventOf(p[1], p[2]).inning = ParsedTitlePool[liveStats.sections[p[1]].title].inningFromTitle

\* what holds instead: the half is the marker's, the inning always the title's
C18_HalfFromMarkerInningFromTitle ==
    returned # <<>> =>
        \A p \in C18_PlainPlays :
            /\ C18_EventOf(p[1], p[2]).half =
                  (IF C18_HasMarker(p[1], p[2])
                   THEN parseHalfAndInning(C18_LastMarker(p[1], p[2])).half ELSE NoHalf)
            /\ C18_EventOf(p[1], p[2]).inning = ParsedTitlePool[liveStats.sections[p[1]].title].inningFromTitle

----------------------------------------------------------------------------
C19_Running(gameId) ==
    {pid \in 1..Len(children) : children[pid].gameId = gameId /\ children[pid].status = "running"}

\* at most one running child per game id, and it is the recorded one
C19_OneRunningChildPerGame ==
    \A gameId \in GameIds :
        /\ Cardinality(C19_Running(gameId)) <= 1
        /\ \A pid \in C19_Running(gameId) :
              gameId \in DOMAIN activeFeeds /\ activeFeeds[gameId] = pid

\* a step starts a feed only for a game without an active record
C19_StartsOnlyWhenInactive ==
    \A pid \in (Len(children) + 1)..Len(children') : children'[pid].gameId \notin DOMAIN activeFeeds

\* a step removes an active record only when the recorded child has exited
C19_RemovesOnlyExited ==
    \A gameId \in DOMAIN activeFeeds :
        gameId \notin DOMAIN activeFeeds' => children[activeFeeds[gameId]].status = "exited"

\* C19: at every moment the daemon has at most one running child feed process
\* per game id: a feed is started only when none is recorded as active for the
\* id, and the record of an id is removed only when that child has exited.
C19_SingleWriter ==
    /\ []C19_OneRunningChildPerGame
    /\ [][C19_StartsOnlyWhenInactive /\ C19_RemovesOnlyExited]_vars

\* the first child of game 1 has exited and was removed, a second child of
\* game 1 runs, and a child of game 2 runs beside it
C19_Witness ==
    /\ Len(children) = 3
    /\ \E first \in 1..3 : \E second \in 1..3 : \E third \in 1..3 :
          /\ children[first].gameId = 1 /\ children[first].status = "reaped"
          /\ children[second].gameId = 1 /\ children[second].status = "running"
          /\ children[third].gameId = 2 /\ children[third].status = "running"
    /\ DOMAIN activeFeeds = {1, 2}

C20_FailureStep == mpc = "fetching" /\ Len(failures') = Len(failures) + 1

\* the main loop leaves its sleep while no shutdown was asked for
C20_WakeUpStep == mpc = "sleeping" /\ mpc' # "sleeping" /\ ~stopping

\* C20: when a discovery cycle fails the failure is logged, no active feed is
\* stopped or removed, and the daemon sleeps the discovery interval and goes
\* on to its next cycle; the failure does not end the daemon.
C20_FailureKeepsDaemonGoing ==
    [][/\ C20_FailureStep =>
             /\ activeFeeds' = activeFeeds
             /\ children' = children
             /\ mpc' = "sleeping"
       /\ C20_WakeUpStep => cycles' = cycles + 1]_vars

\* C20 amended: the same, but a daemon started with --once ends after the
\* failed cycle as it does after any other cycle.
C20_FailureKeepsDaemonGoingUnlessOnce ==
    [][/\ C20_FailureStep =>
             /\ activeFeeds' = activeFeeds
             /\ children' = children
             /\ mpc' = (IF daemonOptions.once THEN "ended" ELSE "sleeping")
       /\ C20_WakeUpStep => cycles' = cycles + 1]_vars

\* the second cycle failed while the feed started in the first cycle was
\* running, the feed is still recorded and running, and the daemon sleeps
C20_Witness ==
    /\ failures = <<2>>
    /\ cycles = 2
    /\ mpc = "sleeping"
    /\ ~stopping
    /\ \E gameId \in DOMAIN activeFeeds :
          children[activeFeeds[gameId]].status = "running" /\ ~children[activeFeeds[gameId]].signalled

----------------------------------------------------------------------------
\* the posts the client has accepted form one chain: each replies to the id
\* returned for the post before it, the first to nothing
C21_Chained ==
    \A i \in 1..Len(tweets) :
        tweets[i].replyTo = (IF i = 1 THEN NullNum ELSE tweets[i - 1].id)

\* the root recorded in the state, in memory and in the file, is the first post
C21_RootIsFirstPost ==
    /\ state.rootTweetId # NullNum => state.rootTweetId = tweets[1].id
    /\ (stateFile # <<>> /\ stateFile[1].rootTweetId # NullNum) => stateFile[1].rootTweetId = tweets[1].id

\* C21: in thread mode reply every post replies to the id returned for the
\* immediately preceding successful post, also across restarts, the first
\* post replies to nothing and rootTweetId is that of the first post for good;
\* in thread mode none no post carries a reply id.
C21_ReplyChain ==
    ~options.dryRun =>
        IF options.threadMode = "reply"
        THEN C21_Chained /\ C21_RootIsFirstPost
        ELSE \A i \in 1..Len(tweets) : tweets[i].replyTo = NullNum

\* what the code does keep: a post replies to the lastTweetId the process
\* holds (none in thread mode none), and within one process a root once set
\* stays
C21_RepliesToLastTweetId ==
    [][/\ Len(tweets') > Len(tweets) =>
             tweets'[Len(tweets')].replyTo =
                 (IF options.threadMode = "reply" THEN state.lastTweetId ELSE NullNum)
       /\ (state.rootTweetId # NullNum /\ fpc' # "down") => state'.rootTweetId = state.rootTweetId]_vars

----------------------------------------------------------------------------
C22_TweetedKeys == {tweets[i].key : i \in {j \in 1..Len(tweets) : tweets[j].kind = "play"}}

\* every play of the list is recorded as posted, and was sent to the client
\* unless the first cycle seeded the whole list (bootstrap mode latest)
C22_EveryPlayPosted ==
    \A key \in 1..upstream :
        /\ key \in Range(state.postedPlayKeys)
        /\ \/ options.dryRun
           \/ key \in C22_TweetedKeys
           \/ options.bootstrapMode = "latest" /\ C22_TweetedKeys = {}

C22_FinalPosted ==
    options.postFinal =>
        /\ state.finalPosted
        /\ options.dryRun \/ \E i \in 1..Len(tweets) : tweets[i].kind = "final"

C22_Ended ==
    /\ fpc = "exited"
    /\ stateFile = <<state>>
    /\ IF options.once THEN clock = 0 ELSE C22_EveryPlayPosted /\ C22_FinalPosted

\* C22: when the summary stays officially final, the play list has stopped
\* changing and every posting call succeeds, the polling loop ends after
\* finitely many cycles with every unposted play posted and, when postFinal is
\* set, the final tweet posted; with --once it ends after exactly one cycle.
C22_LoopTerminates == <>[]C22_Ended

\* a feed without --once has ended in its second cycle, after two plays and
\* the final tweet went to the client
C22_Witness ==
    /\ fpc = "exited"
    /\ ~options.once /\ ~options.dryRun /\ options.postFinal
    /\ clock = 1
    /\ C22_TweetedKeys = {1, 2}
    /\ tweets[Len(tweets)].kind = "final"

----------------------------------------------------------------------------
C25_FinalTweets == {i \in 1..Len(tweets) : tweets[i].kind = "final"}

\* C25: the final tweet is posted at most once per game state, and only in a
\* cycle in which no extracted play remains unposted and the summary is
\* officially final or a likely-final play has been a candidate for the grace
\* period; once finalPosted is true no later cycle posts a final tweet.
C25_FinalAtMostOnce == Cardinality(C25_FinalTweets) <= 1

\* a cycle goes on to the final tweet only with nothing pending, finalPosted
\* false and the game final or likely final for the grace period
C25_FinalDue ==
    (fpc = "posting" /\ fpc' = "final") =>
        /\ options.postFinal
        /\ ~state.finalPosted
        /\ \A i \in 1..Len(plays) : plays[i] \in Range(postedSet)
        /\ \/ summary.official
           \/ /\ summary.likely
              /\ state'.finalCandidateAt # NullNum
              /\ clock - state'.finalCandidateAt >= options.finalGrace

\* a final tweet is sent only by a cycle that found it due, and sets finalPosted
C25_FinalSent ==
    Len(tweets') > Len(tweets) /\ tweets'[Len(tweets')].kind = "final" =>
        fpc = "final" /\ ~state.finalPosted /\ state'.finalPosted

\* what the code does keep: the conditions of every final tweet, and none
\* from a process whose finalPosted is true
C25_FinalOnlyWhenDue == [][C25_FinalDue /\ C25_FinalSent]_vars

----------------------------------------------------------------------------
\* position of a key in the extracted list of the cycle
C26_IndexOf(key) == CHOOSE i \in 1..Len(plays) : plays[i] = key

\* a step of the posting loop that posts a play
C26_PostStep == fpc = "posting" /\ fpc' = "posting" /\ postedSet' # postedSet

\* the play posted is the next of toPost, is sent to the client (unless dry
\* run), and every play before it in the extracted list is posted already
C26_PostsEarliest ==
    C26_PostStep =>
        /\ toPost # <<>> /\ toPost' = Tail(toPost)
        /\ postedSet' = Append(postedSet, Head(toPost))
        /\ Head(toPost) \in Range(plays)
        /\ \A i \in 1..(C26_IndexOf(Head(toPost)) - 1) : plays[i] \in Range(postedSet)
        /\ ~options.dryRun =>
              /\ Len(tweets') = Len(tweets) + 1
              /\ tweets'[Len(tweets')].kind = "play"
              /\ tweets'[Len(tweets')].key = Head(toPost)

\* plays reach the client by a post step only, and toPost is filled only when
\* a cycle begins
C26_OnlyFromToPost ==
    /\ (Len(tweets') > Len(tweets) /\ tweets'[Len(tweets')].kind = "play") => C26_PostStep
    /\ Len(toPost') > Len(toPost) => fpc = "cycle"

\* C26: in one cycle at most maxPostsPerCycle plays are posted, and they are
\* the earliest unposted plays in extraction order: no play is posted while an
\* earlier play of the same extracted list is unposted.
C26_EarliestFirst ==
    /\ [](Len(toPost) <= options.maxPostsPerCycle)
    /\ [](fpc = "cycle" => toPost = <<>>)
    /\ [][C26_PostsEarliest /\ C26_OnlyFromToPost]_vars

\* a cycle limited to one post has posted the first of two plays and leaves
\* the second for the next cycle
C26_Witness ==
    /\ fpc = "posting" /\ toPost = <<>>
    /\ options.maxPostsPerCycle = 1
    /\ plays = <<1, 2>>
    /\ postedSet = <<1>>
    /\ Len(tweets) = 1 /\ tweets[1].key = 1

----------------------------------------------------------------------------
C27_RunningChildrenSignalled ==
    \A pid \in 1..Len(children) : children[pid].status = "running" => children[pid].signalled

C27_NoStartAfterShutdown == stopping => Len(children') = Len(children)

\* C27: once the daemon has begun shutdown, every child feed process it
\* started that is still running has been sent SIGTERM and no feed process is
\* started afterwards, also when the signal arrives during a fetch.
C27_ShutdownStopsFeeds ==
    /\ [](stopping => C27_RunningChildrenSignalled)
    /\ [][C27_NoStartAfterShutdown]_vars

\* what the code does keep: the step that begins shutdown signals every child
\* that runs at that moment, and a daemon that is stopping while it sleeps
\* starts nothing more
C27_ShutdownSignalsCurrentFeeds ==
    [][/\ (~stopping /\ stopping') =>
             \A pid \in 1..Len(children') :
                 children'[pid].status = "running" => children'[pid].signalled
       /\ (stopping /\ mpc = "sleeping") => Len(children') = Len(children)]_vars

----------------------------------------------------------------------------
\* the worker calls in flight: called and not yet settled
C23_InFlight == {k \in 1..Len(consumers) : consumers[k].status = "awaiting"}

\* C23: in runWithConcurrency(items, concurrency, worker), for every
\* interleaving of worker completions, at most min(concurrency, number of
\* items) worker calls are in flight at any moment.
C23_BoundedInFlight ==
    /\ Cardinality(C23_InFlight) <= Min(poolConcurrency, Len(poolItems))
    /\ Cardinality(C23_InFlight) <= Len(workerCalls)

\* three items at concurrency 2: the first call has completed, the second
\* and the third are in flight
C23_Witness ==
    /\ Len(poolItems) = 3 /\ poolConcurrency = 2
    /\ Len(poolResults) = 3 /\ poolResults[1] # NoResult
    /\ {consumers[k].current : k \in C23_InFlight} = {1, 2}

C28_CallsOf(current) == {c \in 1..Len(workerCalls) : workerCalls[c] = current}

C28_AtMostOnce == \A current \in 0..(Len(poolItems) - 1) : Cardinality(C28_CallsOf(current)) <= 1

C28_ExactlyOnce == \A current \in 0..(Len(poolItems) - 1) : Cardinality(C28_CallsOf(current)) = 1

\* the returned array has the worker's result for item i at position i
C28_ResultsInItemOrder ==
    /\ Len(poolReturned) = Len(poolItems)
    /\ \A i \in 1..Len(poolItems) : poolReturned[i] = WorkerResult(poolItems[i])

\* the call has begun its work and no worker call is in flight
C28_Quiet == poolOutcome \in {"pending", "rejected", "resolved"} /\ C23_InFlight = {}

----------------------------------------------------------------------------
\* the key was set and the time is not past the expiry of its last set
C24_Fresh(key) ==
    /\ key \in DOMAIN cacheSets
    /\ cacheNow <= cacheSets[key].at + cacheSets[key].ttlMs

\* a step that is a call of get: neither a set nor the passing of time
C24_GetStep ==
    /\ cacheSets' = cacheSets /\ cacheNow' = cacheNow
    /\ cacheGot' # cacheGot \/ cacheStore' # cacheStore

C24_GetServesUntilExpiry ==
    C24_GetStep =>
        IF C24_Fresh(cacheGot'[1].key)
        THEN /\ cacheGot'[1].value = cacheSets[cacheGot'[1].key].value
             /\ cacheStore' = cacheStore
        ELSE /\ cacheGot'[1].value = CacheNull
             /\ cacheGot'[1].key \notin DOMAIN cacheStore'

\* C24: get(key) returns the value last set for the key only while the time
\* is not past that entry's expiry (time of set plus ttl); past the expiry it
\* returns null and removes the entry: no value is served after its expiry.
C24_NeverServedAfterExpiry == [][C24_GetServesUntilExpiry]_vars

\* a get one millisecond past the expiry of a set entry returned null and
\* removed the entry
C24_Witness ==
    /\ cacheGot # <<>>
    /\ cacheGot[1].key \in DOMAIN cacheSets
    /\ cacheSets[cacheGot[1].key].ttlMs = 1
    /\ cacheGot[1].at = cacheSets[cacheGot[1].key].at + 2
    /\ cacheGot[1].value = CacheNull
    /\ cacheGot[1].key \notin DOMAIN cacheStore

----------------------------------------------------------------------------
\* the scores of one side, play by play, rise from 0 or more to the summary's
C29_Rising(scores, total) ==
    \A i \in 1..Len(scores) :
        /\ 0 <= scores[i]
        /\ scores[i] <= (IF i < Len(scores) THEN scores[i + 1] ELSE total)
        /\ scores[i] <= total

C29_AwayScores == [i \in 1..Len(playStates) |-> playStates[i].awayScore]

C29_HomeScores == [i \in 1..Len(playStates) |-> playStates[i].homeScore]

----------------------------------------------------------------------------
\* the plays of an earlier call keep their keys and order numbers in a later call
C30_KeepsKeys(earlier, later) ==
    /\ Len(earlier) <= Len(later)
    /\ \A p \in 1..Len(earlier) :
          /\ later[p].key = earlier[p].key
          /\ later[p].order = earlier[p].order

\* C30: when a payload is extended only by appending rows after its last play
\* row, extractLivePlayEvents gives the plays of the old payload the same keys
\* and order numbers in the new payload.
C30_AppendKeepsKeys ==
    \A i \in 1..Len(returned) : \A j \in i..Len(returned) : C30_KeepsKeys(returned[i], returned[j])

\* the second call saw a row the first did not: a repeat of an earlier play,
\* which got the next occurrence number and so a key of its own
C30_Witness ==
    /\ Len(returned) = 2
    /\ Len(returned[1]) = 1 /\ Len(returned[2]) = 2
    /\ returned[2][1].key = returned[1][1].key
    /\ returned[2][2].text = returned[2][1].text /\ returned[2][2].outs = returned[2][1].outs
    /\ returned[2][2].half = returned[2][1].half /\ returned[2][2].inning = returned[2][1].inning
    /\ returned[2][2].key # returned[2][1].key

====
